---- MODULE Spec2Model ----
(***************************************************************************)
(* Model of gwsurrogate/surrogate.py: the single-mode surrogate evaluator  *)
(* (EvaluateSingleModeSurrogate) and the multi-mode evaluator              *)
(* (EvaluateSurrogate).                                                    *)
(*                                                                         *)
(* Real numbers are exact rationals <<n, d>> with d > 0 in lowest terms;   *)
(* complex numbers are records [re, im] of rationals.  Phases are measured *)
(* in quarter turns, so that exp(1j*phase) is exact for integral phases.   *)
(* Python's None is the empty tuple where a number or an array is expected *)
(* and NoneArg for ell and m; a raised exception is its message in the     *)
(* field err ("none" when nothing was raised).                             *)
(***************************************************************************)
EXTENDS Integers, Sequences, FiniteSets, TLC

None == << >>

\* the values of the arguments ell and m: None, an integer, a list
NoneArg == [tag |-> "none"]
IntArg(n) == [tag |-> "int", v |-> n]
ListArg(s) == [tag |-> "list", v |-> s]

(***************************************************************************)
(* Bounds of the model.                                                    *)
(***************************************************************************)
\* largest mass ratio q handed to an evaluation
MaxQ == 3
\* largest ell handed to generate_mode_eval_list as an integer (form b)
MaxEll == 3
\* longest explicit ell/m list handed to an evaluation (form c)
MaxListLen == 2

(***************************************************************************)
(* Exact arithmetic.                                                       *)
(***************************************************************************)
Abs(n) == IF n < 0 THEN -n ELSE n

RECURSIVE GCD(_, _)
GCD(a, b) == IF b = 0 THEN a ELSE GCD(b, a % b)

\* the rational n/d (d # 0) in lowest terms with a positive denominator
RNorm(n, d) ==
  LET g == GCD(Abs(n), Abs(d))
      s == IF d < 0 THEN -1 ELSE 1
  IN  << (s * n) \div g, (s * d) \div g >>

R(n) == << n, 1 >>
RAdd(a, b) == RNorm(a[1] * b[2] + b[1] * a[2], a[2] * b[2])
RSub(a, b) == RNorm(a[1] * b[2] - b[1] * a[2], a[2] * b[2])
RMul(a, b) == RNorm(a[1] * b[1], a[2] * b[2])
RDiv(a, b) == RNorm(a[1] * b[2], a[2] * b[1])
RNeg(a) == << -a[1], a[2] >>
RLess(a, b) == a[1] * b[2] < b[1] * a[2]

C(re, im) == [re |-> re, im |-> im]
CAdd(a, b) == C(RAdd(a.re, b.re), RAdd(a.im, b.im))
CMul(a, b) == C(RSub(RMul(a.re, b.re), RMul(a.im, b.im)),
                RAdd(RMul(a.re, b.im), RMul(a.im, b.re)))
CScale(r, a) == C(RMul(r, a.re), RMul(r, a.im))
CZero == C(R(0), R(0))

\* np.power(-1, ell)
PowMinus1(ell) == IF ell % 2 = 0 THEN 1 ELSE -1

\* np.exp(1j*p) for a phase p of an integral number of quarter turns
CExpI(p) ==
  LET k == (p[1] \div p[2]) % 4
  IN  CASE k = 0 -> C(R(1), R(0))
        [] k = 1 -> C(R(0), R(1))
        [] k = 2 -> C(R(-1), R(0))
        [] OTHER -> C(R(0), R(-1))

\* np.dot of a matrix (sequence of rows) with a complex vector
RECURSIVE DotRow(_, _, _)
DotRow(row, vec, j) ==
  IF j = 0 THEN CZero
  ELSE CAdd(DotRow(row, vec, j - 1), CMul(row[j], vec[j]))

Dot(mat, vec) == [i \in 1..Len(mat) |-> DotRow(mat[i], vec, Len(vec))]

RDotRow(row, vec) == DotRow([j \in 1..Len(row) |-> C(row[j], R(0))],
                            [j \in 1..Len(vec) |-> C(vec[j], R(0))], Len(vec)).re

\* np.dot of a real matrix with a real vector
RDot(mat, vec) == [i \in 1..Len(mat) |-> RDotRow(mat[i], vec)]

(***************************************************************************)
(* Collaborators outside surrogate.py: the fit registry (parametric_funcs),*)
(* the parameterizations set by surrogateIO, the unit constants and the    *)
(* harmonics of gwtools, and scipy's splrep/splev for splines of degree 1. *)
(***************************************************************************)
\* np.polyval(coeffs, x): highest power first
RECURSIVE polyval(_, _, _)
polyval(coeffs, x, n) ==
  IF n = 0 THEN R(0)
  ELSE RAdd(RMul(polyval(coeffs, x, n - 1), x), coeffs[n])

\* my_funcs[name](coeffs, x): the registered fit functions are polynomials
my_funcs(name, coeffs, x) == polyval(coeffs, x, Len(coeffs))

\* the parameterization named by the record: mass ratio itself, or the
\* symmetric mass ratio q/(1+q)^2
get_surr_params(name, q) ==
  IF name = "q_to_nu" THEN RDiv(q, RMul(RAdd(R(1), q), RAdd(R(1), q))) ELSE q

\* seconds per solar mass, and MSUN_SI*G/(PC_SI*c^2), as rationals
Msuninsec == << 1, 4 >>
Amp0Unit == << 1, 3 >>

\* the spin-weighted harmonic sYlm(-2, ll, mm, theta, phi): a Gaussian
\* rational that is never 1
sYlm(s, ll, mm, theta, phi) == C(RAdd(R(ll), theta), RAdd(R(mm), phi))

\* _gwtools.find_instant_freq(hp, hc, t): the frequency at t[0], here the
\* slope of hc over the first interval of t
gwtools_find_instant_freq(hp, hc, t) ==
  RDiv(RSub(hc[2], hc[1]), RSub(t[2], t[1]))

\* _gwtools.h_sphere_builder(modes, hp_full, hc_full, t)(t, theta, phi): the
\* modes summed on the sphere
RECURSIVE SphereSum(_, _, _, _, _, _, _)
SphereSum(modes, hp_full, hc_full, theta, phi, t, k) ==
  IF k = 0 THEN CZero
  ELSE CAdd(SphereSum(modes, hp_full, hc_full, theta, phi, t, k - 1),
            CMul(sYlm(-2, modes[k][1], modes[k][2], theta, phi),
                 IF Len(modes) = 1 THEN C(hp_full[t], hc_full[t])
                 ELSE C(hp_full[t][k], hc_full[t][k])))

h_sphere(modes, hp_full, hc_full, theta, phi) ==
  [t \in 1..Len(hp_full) |->
     SphereSum(modes, hp_full, hc_full, theta, phi, t, Len(modes))]

\* _gwtools.setup_minimization_from_discrete_waveforms and
\* _gwtools.minimize_waveform_match: the minimized norm, the optimal (dt, dphi)
\* and [common_times, hsur_align, h2_eval], here for a reference on the grid
\* of the surrogate
minimize_waveform_match(h1, t_mode, h_ref) ==
  [err |-> "none", min_norm |-> R(0), opt_solution |-> << R(0), R(0) >>,
   aligned |-> << t_mode, h1, h_ref >>]

\* _gwtools.modify_phase(h, p): h*exp(1j*p)
modify_phase(h, p) == [i \in 1..Len(h) |-> CMul(h[i], CExpI(p))]

\* splev(x, splrep(times, col, k=1), ext): the piecewise-linear interpolant
\* of col over times; outside [times[1], times[-1]] it extrapolates the end
\* segment for ext = 0 and returns 0 for ext = 1
Segment(times, x) ==
  IF RLess(x, times[1]) THEN 1
  ELSE LET S == {i \in 1..(Len(times) - 1) : ~RLess(x, times[i])}
       IN  CHOOSE i \in S : \A k \in S : k <= i

splev(x, times, col, ext) ==
  IF ext = 1 /\ (RLess(x, times[1]) \/ RLess(times[Len(times)], x)) THEN R(0)
  ELSE LET i == Segment(times, x)
           slope == RDiv(RSub(col[i + 1], col[i]), RSub(times[i + 1], times[i]))
       IN  RAdd(col[i], RMul(slope, RSub(x, times[i])))

(***************************************************************************)
(* The data of one mode, as the loaders of surrogateIO leave it in an      *)
(* EvaluateSingleModeSurrogate (fields keep the attribute names).          *)
(***************************************************************************)
Variants == {"base", "t", "s", "f", "p", "n"}
Kinds == {"wf_fast", "wf_poly", "ap", "ap_fast", "wf_log"}

\* the variants whose native grid starts after and before zero
ShiftedVariants == {"tp", "tn"}

MakeTimes(variant) ==
  CASE variant = "t" -> << R(0), R(2) >>
    [] variant = "tp" -> << R(1), R(2) >>
    [] variant = "tn" -> << R(-1), R(0) >>
    [] variant = "s" -> << R(0), R(1), R(2) >>
    [] OTHER         -> << R(0), R(1) >>

MakeRecord(key, variant, kind) ==
  LET times == MakeTimes(variant)
      ell == key[1]
      m == key[2]
  IN  [ times |-> times,
        fit_interval |->
          CASE variant = "f" -> << R(1), R(3) >>
            [] variant = "n" -> << RNorm(1, 5), RNorm(1, 4) >>
            [] OTHER         -> << R(1), R(2) >>,
        get_surr_params |-> IF variant \in {"p", "n"} THEN "q_to_nu" ELSE "q_to_q",
        affine_map |->
          CASE kind = "wf_poly" -> "minus1_to_1"
            [] kind = "ap"      -> "zero_to_1"
            [] kind = "wf_log"  -> "log"
            [] OTHER            -> "none",
        surrogate_mode_type |->
          IF kind \in {"wf_fast", "wf_poly", "wf_log"} THEN "waveform_basis"
          ELSE "amp_phase_basis",
        surrogate_units |-> "dimensionless",
        fit_type_amp |->
          IF kind \in {"wf_fast", "ap_fast"} THEN "fast_spline_real" ELSE "polyval_1d",
        fit_type_phase |->
          IF kind \in {"wf_fast", "ap_fast"} THEN "fast_spline_imag" ELSE "polyval_1d",
        fit_type_norm |-> "polyval_1d",
        norms |-> (kind = "wf_fast"),
        fitparams_amp |-> << << R(1), R(0) >>, << R(2) >> >>,
        fitparams_phase |-> << << R(1) >>, << R(0) >> >>,
        fitparams_norm |-> << R(1), R(1) >>,
        B |-> [i \in 1..Len(times) |-> << C(R(ell + i), R(m + i)), C(R(i), R(1)) >>],
        B_1 |-> [i \in 1..Len(times) |-> << R(ell), R(i) >>],
        B_2 |-> [i \in 1..Len(times) |-> << R(m), R(i) >>] ]

(***************************************************************************)
(* EvaluateSingleModeSurrogate                                             *)
(***************************************************************************)
\* self.time(): units, M and dt are None in every call of this file
time(self) == self.times

\* the tolerance of the resamplers: 1.e-12 in the source, 1e-6 here to stay
\* within 32-bit integers
NearTol == << 1, 1000000 >>

RAbs(a) == << Abs(a[1]), a[2] >>

\* resample_B evaluating every row with ext=0, the extrapolating mode
resample_B_extrapolating(self, samples, ext) ==
  LET dim == Len(self.B[1])
      reCol(jj) == [i \in 1..Len(self.times) |-> self.B[i][jj].re]
      imCol(jj) == [i \in 1..Len(self.times) |-> self.B[i][jj].im]
  IN  [i \in 1..Len(samples) |->
         [jj \in 1..dim |-> C(splev(samples[i], self.times, reCol(jj), 0),
                              splev(samples[i], self.times, imCol(jj), 0))]]

resample_B(self, samples, ext) ==
  LET dim == Len(self.B[1])
      reCol(jj) == [i \in 1..Len(self.times) |-> self.B[i][jj].re]
      imCol(jj) == [i \in 1..Len(self.times) |-> self.B[i][jj].im]
      row(x, e) == [jj \in 1..dim |->
                      C(splev(x, self.times, reCol(jj), e),
                        splev(x, self.times, imCol(jj), e))]
      t0 == self.times[1]
      near == \/ RLess(RAbs(RSub(samples[1], t0)), RMul(t0, NearTol))
              \/ (t0 = R(0) /\ RLess(RAbs(RSub(samples[1], t0)), NearTol))
  IN  [i \in 1..Len(samples) |->
         IF i = 1 /\ near THEN row(samples[1], 0) ELSE row(samples[i], ext)]

\* the test of resample_B_1 and resample_B_2: a quotient by times[0]; for
\* times[0] = 0 numpy gives inf or nan, which compare False
NearByQuotient(s0, t0) ==
  t0 # R(0) /\ RLess(RDiv(RAbs(RSub(s0, t0)), t0), NearTol)

\* both resamplers evaluate every row, the recomputed row 0 too, with ext=1
resample_B_1(self, samples, ext) ==
  LET col(jj) == [i \in 1..Len(self.times) |-> self.B_1[i][jj]]
      row(x, e) == [jj \in 1..Len(self.B_1[1]) |-> splev(x, self.times, col(jj), e)]
  IN  [i \in 1..Len(samples) |->
         IF i = 1 /\ NearByQuotient(samples[1], self.times[1])
         THEN row(samples[1], 1) ELSE row(samples[i], 1)]

resample_B_2(self, samples, ext) ==
  LET col(jj) == [i \in 1..Len(self.times) |-> self.B_2[i][jj]]
      row(x, e) == [jj \in 1..Len(self.B_2[1]) |-> splev(x, self.times, col(jj), e)]
  IN  [i \in 1..Len(samples) |->
         IF i = 1 /\ NearByQuotient(samples[1], self.times[1])
         THEN row(samples[1], 1) ELSE row(samples[i], 1)]

\* check_training_interval with the bounds of the interval excluded
check_training_interval_exclusive(self, x, strong_checking) ==
  IF ~RLess(self.fit_interval[1], x) \/ ~RLess(x, self.fit_interval[2])
  THEN IF strong_checking
       THEN [err |-> "Surrogate not trained at requested parameter value",
             warned |-> FALSE]
       ELSE [err |-> "none", warned |-> TRUE]
  ELSE [err |-> "none", warned |-> FALSE]

\* check_training_interval: raises in strict mode, prints in lenient mode
check_training_interval(self, x, strong_checking) ==
  IF RLess(x, self.fit_interval[1]) \/ RLess(self.fit_interval[2], x)
  THEN IF strong_checking
       THEN [err |-> "Surrogate not trained at requested parameter value",
             warned |-> FALSE]
       ELSE [err |-> "none", warned |-> TRUE]
  ELSE [err |-> "none", warned |-> FALSE]

\* get_surr_params_safe with a lenient check
CheckedParams_lenient(self, x_internal) ==
  check_training_interval(self, x_internal, FALSE) @@ [x_internal |-> x_internal]

\* get_surr_params_safe, from the converted parameter on: the check is called
\* with its default, strong_checking=True
CheckedParams(self, x_internal) ==
  check_training_interval(self, x_internal, TRUE) @@ [x_internal |-> x_internal]

get_surr_params_safe(self, x) ==
  CheckedParams(self, get_surr_params(self.get_surr_params, x))

\* _affine_mapper with the shift of minus1_to_1 left out
_affine_mapper_unshifted(self, x) ==
  CASE self.affine_map = "minus1_to_1" ->
         [err |-> "none",
          x_0 |-> RDiv(RMul(R(2), RSub(x, self.fit_interval[1])),
                       RSub(self.fit_interval[2], self.fit_interval[1]))]
    [] self.affine_map = "zero_to_1" ->
         [err |-> "none",
          x_0 |-> RDiv(RSub(x, self.fit_interval[1]),
                       RSub(self.fit_interval[2], self.fit_interval[1]))]
    [] self.affine_map = "none" -> [err |-> "none", x_0 |-> x]
    [] OTHER -> [err |-> "unknown affine map", x_0 |-> None]

_affine_mapper(self, x) ==
  CASE self.affine_map = "minus1_to_1" ->
         [err |-> "none",
          x_0 |-> RSub(RDiv(RMul(R(2), RSub(x, self.fit_interval[1])),
                            RSub(self.fit_interval[2], self.fit_interval[1])), R(1))]
    [] self.affine_map = "zero_to_1" ->
         [err |-> "none",
          x_0 |-> RDiv(RSub(x, self.fit_interval[1]),
                       RSub(self.fit_interval[2], self.fit_interval[1]))]
    [] self.affine_map = "none" -> [err |-> "none", x_0 |-> x]
    [] OTHER -> [err |-> "unknown affine map", x_0 |-> None]

_norm_eval(self, x_0) ==
  IF ~self.norms THEN R(1)
  ELSE my_funcs(self.fit_type_norm, self.fitparams_norm, x_0)

_amp_eval(self, x_0) ==
  [jj \in 1..Len(self.fitparams_amp) |->
     my_funcs(self.fit_type_amp, self.fitparams_amp[jj], x_0)]

_phase_eval(self, x_0) ==
  [jj \in 1..Len(self.fitparams_phase) |->
     my_funcs(self.fit_type_phase, self.fitparams_phase[jj], x_0)]

\* steps lists, in order, the steps of the evaluation that were executed
NoEim(e) == [err |-> e, h_EIM |-> << >>, amp_eval |-> << >>, phase_eval |-> << >>,
             nrm_eval |-> R(1),
             steps |-> << "_affine_mapper", "_amp_eval", "_phase_eval", "_norm_eval" >>]

\* _eim_coeffs, from the evaluated fits on
EimFromFits(self, amp_eval, phase_eval, nrm_eval) ==
  CASE self.surrogate_mode_type = "waveform_basis" ->
         [NoEim("none") EXCEPT !.h_EIM =
            IF self.fit_type_amp = "fast_spline_real"
            THEN [jj \in 1..Len(amp_eval) |->
                    CScale(nrm_eval, C(amp_eval[jj], phase_eval[jj]))]
            ELSE [jj \in 1..Len(amp_eval) |->
                    CScale(RMul(nrm_eval, amp_eval[jj]), CExpI(phase_eval[jj]))]]
    [] self.surrogate_mode_type = "amp_phase_basis" ->
         IF self.fit_type_amp = "fast_spline_real"
         THEN NoEim("invalid combination")
         ELSE [NoEim("none") EXCEPT !.amp_eval = amp_eval, !.phase_eval = phase_eval,
                                    !.nrm_eval = nrm_eval]
    [] OTHER -> NoEim("invalid surrogate type")

\* _eim_coeffs, from the mapped parameter on
EimFromMapped(self, mapped) ==
  IF mapped.err # "none"
  THEN [NoEim(mapped.err) EXCEPT !.steps = << "_affine_mapper" >>]
  ELSE EimFromFits(self, _amp_eval(self, mapped.x_0), _phase_eval(self, mapped.x_0),
                   _norm_eval(self, mapped.x_0))

_eim_coeffs(self, x, surrogate_mode_type) == EimFromMapped(self, _affine_mapper(self, x))

\* the real and imaginary parts of the reconstructed mode; resampled lists
\* the resamplers that were called
SplitSurrogate(surrogate, resampled) ==
  [err |-> "none",
   hp |-> [i \in 1..Len(surrogate) |-> surrogate[i].re],
   hc |-> [i \in 1..Len(surrogate) |-> surrogate[i].im],
   resampled |-> resampled]

\* nrm_eval * sur_A * np.exp(1j*sur_P)
AmpPhaseSurrogate(nrm_eval, sur_A, sur_P) ==
  [i \in 1..Len(sur_A) |-> CScale(RMul(nrm_eval, sur_A[i]), CExpI(sur_P[i]))]

\* the outcome r of a step sequence that ran own after the steps pre
Traced(pre, own, r) == r @@ [steps |-> pre \o own]

\* _h_sur resampling the bases in every call, at the native times when no
\* samples are given
HSurFromEim_resampling(self, samples, eim) ==
  IF eim.err # "none"
  THEN [err |-> eim.err, hp |-> << >>, hc |-> << >>, resampled |-> {},
        steps |-> eim.steps]
  ELSE IF self.surrogate_mode_type = "waveform_basis"
  THEN Traced(eim.steps, << "resample_B", "np.dot" >>,
              SplitSurrogate(Dot(resample_B(self, IF samples = None THEN self.times
                                                  ELSE samples, 1), eim.h_EIM),
                             {"resample_B"}))
  ELSE Traced(eim.steps, << "resample_B_1", "np.dot", "resample_B_2", "np.dot" >>,
              SplitSurrogate(AmpPhaseSurrogate(eim.nrm_eval,
                               RDot(resample_B_1(self, IF samples = None THEN self.times
                                                       ELSE samples, 1), eim.amp_eval),
                               RDot(resample_B_2(self, IF samples = None THEN self.times
                                                       ELSE samples, 1), eim.phase_eval)),
                             {"resample_B_1", "resample_B_2"}))

\* _h_sur, from the EIM coefficients on
HSurFromEim(self, samples, eim) ==
  IF eim.err # "none"
  THEN [err |-> eim.err, hp |-> << >>, hc |-> << >>, resampled |-> {},
        steps |-> eim.steps]
  ELSE IF self.surrogate_mode_type = "waveform_basis"
  THEN IF samples = None
       THEN Traced(eim.steps, << "np.dot" >>,
                   SplitSurrogate(Dot(self.B, eim.h_EIM), {}))
       ELSE Traced(eim.steps, << "resample_B", "np.dot" >>,
                   SplitSurrogate(Dot(resample_B(self, samples, 1), eim.h_EIM),
                                  {"resample_B"}))
  ELSE IF samples = None
       THEN Traced(eim.steps, << "np.dot", "np.dot" >>,
                   SplitSurrogate(AmpPhaseSurrogate(eim.nrm_eval,
                                    RDot(self.B_1, eim.amp_eval),
                                    RDot(self.B_2, eim.phase_eval)), {}))
       ELSE Traced(eim.steps, << "resample_B_1", "np.dot", "resample_B_2", "np.dot" >>,
                   SplitSurrogate(AmpPhaseSurrogate(eim.nrm_eval,
                                    RDot(resample_B_1(self, samples, 1), eim.amp_eval),
                                    RDot(resample_B_2(self, samples, 1), eim.phase_eval)),
                                  {"resample_B_1", "resample_B_2"}))

\* _h_sur: the dimensionless mode at the internal parameter x
_h_sur(self, x, samples) ==
  IF self.surrogate_mode_type \in {"waveform_basis", "amp_phase_basis"}
  THEN HSurFromEim(self, samples, _eim_coeffs(self, x, self.surrogate_mode_type))
  ELSE [err |-> "invalid surrogate type", hp |-> << >>, hc |-> << >>, resampled |-> {},
        steps |-> << >>]

NoMode(e) == [err |-> e, t |-> << >>, hp |-> << >>, hc |-> << >>,
              warned |-> FALSE, resampled |-> {}, steps |-> << >>]

\* the two steps of get_surr_params_safe
CheckSteps == << "get_surr_params", "check_training_interval" >>

\* the scales of a physical mode: (amp0, t_scale)
Scales(M, dist) ==
  IF M # None /\ dist # None
  THEN [amp0 |-> RMul(RDiv(M, dist), Amp0Unit), t_scale |-> RMul(Msuninsec, M)]
  ELSE [amp0 |-> R(1), t_scale |-> R(1)]

\* __call__, from the bare evaluation on: the amplitude scaling
ScaledMode(t, amp0, warned, h) ==
  IF h.err # "none" THEN [NoMode(h.err) EXCEPT !.steps = CheckSteps \o h.steps]
  ELSE [err |-> "none", t |-> t,
        hp |-> [i \in 1..Len(h.hp) |-> RMul(amp0, h.hp[i])],
        hc |-> [i \in 1..Len(h.hc) |-> RMul(amp0, h.hc[i])],
        warned |-> warned, resampled |-> h.resampled,
        steps |-> CheckSteps \o h.steps]

\* __call__, from the evaluation times on: t is what is returned, samples
\* the dimensionless t/M handed to _h_sur
\* __call__ from the evaluation times on, going on whatever the check said
ModeAtTimes_unchecked(self, t, samples, amp0, xs) ==
  ScaledMode(t, amp0, xs.warned, _h_sur(self, xs.x_internal, samples))

ModeAtTimes(self, t, samples, amp0, xs) ==
  IF xs.err # "none" THEN [NoMode(xs.err) EXCEPT !.steps = CheckSteps]
  ELSE ScaledMode(t, amp0, xs.warned, _h_sur(self, xs.x_internal, samples))

\* __call__ handing samples given in seconds to _h_sur as they are
ModeWithScales_unscaled(self, q, samples, samples_units, sc) ==
  ModeAtTimes(self,
              IF samples_units = "dimensionless"
              THEN [i \in 1..Len(IF samples # None THEN samples ELSE time(self)) |->
                      RMul(sc.t_scale, (IF samples # None THEN samples ELSE time(self))[i])]
              ELSE IF samples # None THEN samples ELSE time(self),
              samples,
              sc.amp0,
              get_surr_params_safe(self, q))

\* __call__, from the scales on
ModeWithScales(self, q, samples, samples_units, sc) ==
  ModeAtTimes(self,
              IF samples_units = "dimensionless"
              THEN [i \in 1..Len(IF samples # None THEN samples ELSE time(self)) |->
                      RMul(sc.t_scale, (IF samples # None THEN samples ELSE time(self))[i])]
              ELSE IF samples # None THEN samples ELSE time(self),
              IF samples # None /\ samples_units = "mks"
              THEN [i \in 1..Len(samples) |-> RDiv(samples[i], sc.t_scale)]
              ELSE samples,
              sc.amp0,
              get_surr_params_safe(self, q))

\* EvaluateSingleModeSurrogate.__call__ with phi_ref = None and f_low = None
SingleModeCall(self, q, M, dist, samples, samples_units, singlemode_call) ==
  IF self.surrogate_units # "dimensionless"
  THEN NoMode("surrogate units is not supported")
  ELSE IF samples_units # "dimensionless" /\ samples_units # "mks"
  THEN NoMode("samples_units is not supported")
  ELSE ModeWithScales(self, q, samples, samples_units, Scales(M, dist))

\* EvaluateSingleModeSurrogate.find_instant_freq: the absolute value of the
\* starting frequency, with a Warning raised when it exceeds f_low
find_instant_freq(hp, hc, t, f_low) ==
  IF f_low = None
  THEN [err |-> "none", f_instant |-> RAbs(gwtools_find_instant_freq(hp, hc, t))]
  ELSE IF RLess(f_low, RAbs(gwtools_find_instant_freq(hp, hc, t)))
  THEN [err |-> "starting frequency is", f_instant |-> None]
  ELSE [err |-> "none", f_instant |-> None]

\* __call__, from the scaled mode r on: the check of the starting frequency
FLowChecked(r, f_low) ==
  IF r.err # "none" \/ f_low = None THEN r
  ELSE IF find_instant_freq(r.hp, r.hc, r.t, f_low).err # "none"
  THEN [NoMode(find_instant_freq(r.hp, r.hc, r.t, f_low).err)
          EXCEPT !.warned = r.warned, !.resampled = r.resampled,
                 !.steps = r.steps \o << "find_instant_freq" >>]
  ELSE r

\* EvaluateSingleModeSurrogate.__call__ with phi_ref = None
SingleModeCallFLow(self, q, M, dist, f_low, samples, samples_units, singlemode_call) ==
  FLowChecked(SingleModeCall(self, q, M, dist, samples, samples_units, singlemode_call),
              f_low)

(***************************************************************************)
(* CreateManyEvaluateSingleModeSurrogates and EvaluateSurrogate.  A python *)
(* dict is [keys, val]: its keys in insertion order and its values.        *)
(***************************************************************************)
EmptyDict == [keys |-> << >>, val |-> << >>]

InDict(d, key) == \E i \in 1..Len(d.keys) : d.keys[i] = key

\* the hdf5 branch with ell_m = None and nothing excluded: archive is the
\* sequence of << (ell, m), record >> groups of the file
\* the loader without its test for negative m
CreateManyEvaluateSingleModeSurrogates_unguarded(archive, enforce_orbital_plane_symmetry) ==
  LET mode_keys == [i \in 1..Len(archive) |-> archive[i][1]]
  IN  [err |-> "none",
       single_mode_dict |->
         [keys |-> mode_keys,
          val |-> [k \in {mode_keys[i] : i \in 1..Len(mode_keys)} |->
                     LET i == CHOOSE i \in 1..Len(archive) : archive[i][1] = k
                     IN  archive[i][2]]]]

CreateManyEvaluateSingleModeSurrogates(archive, enforce_orbital_plane_symmetry) ==
  LET mode_keys == [i \in 1..Len(archive) |-> archive[i][1]]
  IN  IF enforce_orbital_plane_symmetry
         /\ \E i \in 1..Len(mode_keys) : mode_keys[i][2] < 0
      THEN [err |-> "do not load negative m modes", single_mode_dict |-> EmptyDict]
      ELSE [err |-> "none",
            single_mode_dict |->
              [keys |-> mode_keys,
               val |-> [k \in {mode_keys[i] : i \in 1..Len(mode_keys)} |->
                          LET i == CHOOSE i \in 1..Len(archive) : archive[i][1] = k
                          IN  archive[i][2]]]]

\* EvaluateSurrogate.__init__
EvaluateSurrogateInit(archive, use_sym) ==
  LET made == CreateManyEvaluateSingleModeSurrogates(archive, use_sym)
      d == made.single_mode_dict
      first_mode_surr == d.val[d.keys[1]]
      grid_shape == Len(time(first_mode_surr))
      training_parameter_range == first_mode_surr.fit_interval
      parameterization == first_mode_surr.get_surr_params
      \* the first key, if any, at which the second loop raises
      Bad == {i \in 1..Len(d.keys) :
                \/ d.val[d.keys[i]].fit_interval # training_parameter_range
                \/ d.val[d.keys[i]].get_surr_params # parameterization}
      firstBad == CHOOSE i \in Bad : \A k \in Bad : i <= k
      fail(e) == [err |-> e, single_mode_dict |-> EmptyDict]
  IN  IF made.err # "none" THEN fail(made.err)
      ELSE IF Len(d.keys) = 0 THEN fail("Modes not found")
      ELSE IF \E i \in 1..Len(d.keys) : Len(time(d.val[d.keys[i]])) # grid_shape
      THEN fail("inconsistent single mode temporal grids")
      ELSE IF Bad # {}
      THEN IF d.val[d.keys[firstBad]].fit_interval # training_parameter_range
           THEN fail("inconsistent single mode parameter grids")
           ELSE fail("inconsistent single mode parameterizations")
      ELSE [err |-> "none", single_mode_dict |-> d]

\* _extend_mode_list_minus_m with `if m>=0` for `if m>0`
RECURSIVE ExtendFrom_nonneg(_, _, _)
ExtendFrom_nonneg(positive_modes, k, mode_list) ==
  IF k > Len(positive_modes) THEN [err |-> "none", list |-> mode_list]
  ELSE IF positive_modes[k][2] >= 0
  THEN ExtendFrom_nonneg(positive_modes, k + 1,
         Append(mode_list, << positive_modes[k][1], -positive_modes[k][2] >>))
  ELSE [err |-> "your list already has negative modes!", list |-> mode_list]

\* _extend_mode_list_minus_m: mode_list is appended to in place while a copy
\* is walked; `list` is mode_list as the call leaves it
RECURSIVE ExtendFrom(_, _, _)
ExtendFrom(positive_modes, k, mode_list) ==
  IF k > Len(positive_modes) THEN [err |-> "none", list |-> mode_list]
  ELSE LET ell == positive_modes[k][1]
           m == positive_modes[k][2]
       IN  IF m > 0
           THEN ExtendFrom(positive_modes, k + 1, Append(mode_list, << ell, -m >>))
           ELSE IF m < 0
           THEN [err |-> "your list already has negative modes!", list |-> mode_list]
           ELSE ExtendFrom(positive_modes, k + 1, mode_list)

\* _extend_mode_list_minus_m without the ValueError for an m < 0 entry
RECURSIVE ExtendFrom_unguarded(_, _, _)
ExtendFrom_unguarded(positive_modes, k, mode_list) ==
  IF k > Len(positive_modes) THEN [err |-> "none", list |-> mode_list]
  ELSE IF positive_modes[k][2] > 0
  THEN ExtendFrom_unguarded(positive_modes, k + 1,
         Append(mode_list, << positive_modes[k][1], -positive_modes[k][2] >>))
  ELSE ExtendFrom_unguarded(positive_modes, k + 1, mode_list)

_extend_mode_list_minus_m_unguarded(mode_list) ==
  ExtendFrom_unguarded(mode_list, 1, mode_list)

_extend_mode_list_minus_m(mode_list) == ExtendFrom(mode_list, 1, mode_list)

all_model_modes(self, minus_m) ==
  LET model_modes == self.keys
  IN  IF minus_m THEN _extend_mode_list_minus_m(model_modes)
      ELSE [err |-> "none", list |-> model_modes]

\* the loops with range(0, L) for the inner one
RECURSIVE ModesUpTo_exclusive(_, _, _)
ModesUpTo_exclusive(L, emm, LMax) ==
  IF L > LMax THEN << >>
  ELSE IF emm >= L THEN ModesUpTo_exclusive(L + 1, 0, LMax)
  ELSE << << L, emm >> >> \o ModesUpTo_exclusive(L, emm + 1, LMax)

\* range(2, LMax+1) x range(0, L+1), in the order the loops append
RECURSIVE ModesUpTo(_, _, _)
ModesUpTo(L, emm, LMax) ==
  IF L > LMax THEN << >>
  ELSE IF emm > L THEN ModesUpTo(L + 1, 0, LMax)
  ELSE << << L, emm >> >> \o ModesUpTo(L, emm + 1, LMax)

generate_mode_eval_list(self, ell, m, minus_m) ==
  LET built ==
        IF ell = NoneArg /\ m = NoneArg THEN all_model_modes(self, FALSE)
        ELSE IF m = NoneArg
        THEN IF ell.tag = "int" THEN [err |-> "none", list |-> ModesUpTo(2, 0, ell.v)]
             ELSE [err |-> "TypeError", list |-> << >>]
        ELSE IF ell.tag # "list" \/ m.tag # "list"
        THEN [err |-> "TypeError", list |-> << >>]
        ELSE IF Len(m.v) < Len(ell.v) THEN [err |-> "IndexError", list |-> << >>]
        ELSE [err |-> "none",
              list |-> [ii \in 1..Len(ell.v) |-> << ell.v[ii], m.v[ii] >>]]
  IN  IF built.err # "none" THEN built
      ELSE IF minus_m THEN _extend_mode_list_minus_m(built.list)
      ELSE built

\* sorted(mode_list, key=itemgetter(0,1)): stable, ascending in (ell, m)
ModeLess(a, b) == a[1] < b[1] \/ (a[1] = b[1] /\ a[2] < b[2])

RECURSIVE InsertMode(_, _)
InsertMode(sorted, x) ==
  IF sorted = << >> THEN << x >>
  ELSE IF ModeLess(x, sorted[Len(sorted)])
       THEN Append(InsertMode(SubSeq(sorted, 1, Len(sorted) - 1), x), sorted[Len(sorted)])
       ELSE Append(sorted, x)

RECURSIVE SortPrefix(_, _)
SortPrefix(mode_list, n) ==
  IF n = 0 THEN << >> ELSE InsertMode(SortPrefix(mode_list, n - 1), mode_list[n])

\* sort_mode_list handing the list back in the order it came
sort_mode_list_unsorted(mode_list) == mode_list

sort_mode_list(mode_list) == SortPrefix(mode_list, Len(mode_list))

\* hp + 1.0j*hc, and back
Join(hp, hc) == [i \in 1..Len(hp) |-> C(hp[i], hc[i])]
Split(h) == [err |-> "none",
             hp |-> [i \in 1..Len(h) |-> h[i].re],
             hc |-> [i \in 1..Len(h) |-> h[i].im]]

\* evaluate_on_sphere
evaluate_on_sphere(ell, m, theta, phi, hp_mode, hc_mode) ==
  IF theta # None
  THEN IF phi = None
       THEN [err |-> "phi must have a value", hp |-> hp_mode, hc |-> hc_mode]
       ELSE Split([i \in 1..Len(hp_mode) |->
                     CMul(sYlm(-2, ell, m, theta, phi), C(hp_mode[i], hc_mode[i]))])
  ELSE [err |-> "none", hp |-> hp_mode, hc |-> hc_mode]

\* evaluate_single_mode: indexes single_mode_dict with (ell, m) and calls the
\* single-mode evaluator with singlemode_call=False
evaluate_single_mode(self, q, M, dist, samples, samples_units, ell, m) ==
  IF ~InDict(self, << ell, m >>)
  THEN NoMode("KeyError") @@ [indexed |-> << << ell, m >> >>]
  ELSE SingleModeCall(self.val[<< ell, m >>], q, M, dist, samples, samples_units, FALSE)
         @@ [indexed |-> << << ell, m >> >>]

\* _generate_minus_m_mode with the conjugation but without the factor (-1)^ell
_generate_minus_m_mode_conj(hp_mode, hc_mode, ell, m) ==
  IF m <= 0
  THEN [err |-> "m must be nonnegative", hp |-> hp_mode, hc |-> hc_mode]
  ELSE [err |-> "none",
        hp |-> hp_mode,
        hc |-> [i \in 1..Len(hc_mode) |-> RNeg(hc_mode[i])]]

\* _generate_minus_m_mode
_generate_minus_m_mode(hp_mode, hc_mode, ell, m) ==
  IF m <= 0
  THEN [err |-> "m must be nonnegative", hp |-> hp_mode, hc |-> hc_mode]
  ELSE [err |-> "none",
        hp |-> [i \in 1..Len(hp_mode) |-> RMul(R(PowMinus1(ell)), hp_mode[i])],
        hc |-> [i \in 1..Len(hc_mode) |-> RNeg(RMul(R(PowMinus1(ell)), hc_mode[i]))]]

\* evaluate_single_mode_by_symmetry, from the evaluated (ell, -m) mode r on
MinusMFrom(r, g) == [r EXCEPT !.err = g.err, !.hp = g.hp, !.hc = g.hc]

\* evaluate_single_mode_by_symmetry handing m itself, not -m, to
\* _generate_minus_m_mode
SymmetryFrom_same_sign(r, ell, m) ==
  IF r.err # "none" THEN r
  ELSE MinusMFrom(r, _generate_minus_m_mode(r.hp, r.hc, ell, m))

SymmetryFrom(r, ell, m) ==
  IF r.err # "none" THEN r
  ELSE MinusMFrom(r, _generate_minus_m_mode(r.hp, r.hc, ell, -m))

\* evaluate_single_mode_by_symmetry
evaluate_single_mode_by_symmetry(self, q, M, dist, samples, samples_units, ell, m) ==
  IF m < 0
  THEN SymmetryFrom(evaluate_single_mode(self, q, M, dist, samples, samples_units, ell, -m),
                    ell, m)
  ELSE NoMode("m must be negative.") @@ [indexed |-> << >>]

\* _allocate_output_array: a vector for one column, else rows of num_modes zeros
_allocate_output_array(self, samples, num_modes, mode_sum) ==
  IF num_modes = 1
  THEN [i \in 1..(IF samples # None THEN Len(samples)
                  ELSE Len(time(self.val[self.keys[1]]))) |-> R(0)]
  ELSE [i \in 1..(IF samples # None THEN Len(samples)
                  ELSE Len(time(self.val[self.keys[1]]))) |->
          [c \in 1..num_modes |-> R(0)]]

\* the locals of EvaluateSurrogate.__call__ once mode ii was evaluated to r
\* by the path `how`
Seen(acc, r, how) ==
  [acc EXCEPT !.indexed = @ \o r.indexed, !.path = Append(@, how),
              !.warned = @ \/ r.warned, !.resampled = @ \cup r.resampled]

\* the rotation about the z axis applied when z_rot is given
Rotated(z_rot, m, r) ==
  IF z_rot # None THEN Split(modify_phase(Join(r.hp, r.hc), RMul(z_rot, R(m))))
  ELSE [err |-> "none", hp |-> r.hp, hc |-> r.hc]

\* hp_full or hc_full after the mode in column ii was added or stored
Put(a, ii, full, mode) ==
  IF a.mode_sum THEN [i \in 1..Len(full) |-> RAdd(full[i], mode[i])]
  ELSE IF Len(a.modes_to_evaluate) = 1 THEN mode
  ELSE [i \in 1..Len(full) |-> [full[i] EXCEPT ![ii] = mode[i]]]

Stored(a, ii, acc, t_mode, s) ==
  [acc EXCEPT !.t_mode = t_mode, !.hp_full = Put(a, ii, @, s.hp),
              !.hc_full = Put(a, ii, @, s.hc)]

\* the loop over modes_to_evaluate in EvaluateSurrogate.__call__, from
\* position ii on with the locals acc; a holds the arguments
RECURSIVE ModeLoop(_, _, _, _)
RECURSIVE ModeProjected(_, _, _, _, _, _)
RECURSIVE ModeEvaluated(_, _, _, _, _, _)

ModeProjected(self, a, ii, acc, t_mode, s) ==
  IF s.err # "none" THEN [acc EXCEPT !.err = s.err]
  ELSE ModeLoop(self, a, ii + 1, Stored(a, ii, acc, t_mode, s))

\* evaluate_on_sphere on the rotated mode w
OnSphere(ell, m, theta, phi, w) == evaluate_on_sphere(ell, m, theta, phi, w.hp, w.hc)

ModeEvaluated(self, a, ii, acc, how, r) ==
  IF r.err # "none" THEN [Seen(acc, r, how) EXCEPT !.err = r.err]
  ELSE ModeProjected(self, a, ii, Seen(acc, r, how), r.t,
                     OnSphere(a.modes_to_evaluate[ii][1], a.modes_to_evaluate[ii][2],
                              a.theta, a.phi,
                              Rotated(a.z_rot, a.modes_to_evaluate[ii][2], r)))

\* the loop with the symmetry path taken whether or not fake_neg_modes is set
ModeLoop_always_fake(self, a, ii, acc) ==
  IF ii > Len(a.modes_to_evaluate) \/ acc.err # "none" THEN acc
  ELSE IF InDict(self, a.modes_to_evaluate[ii])
  THEN ModeEvaluated(self, a, ii, acc, "direct",
         evaluate_single_mode(self, a.q, a.M, a.dist, a.samples, a.samples_units,
                              a.modes_to_evaluate[ii][1], a.modes_to_evaluate[ii][2]))
  ELSE IF InDict(self, << a.modes_to_evaluate[ii][1], -a.modes_to_evaluate[ii][2] >>)
  THEN ModeEvaluated(self, a, ii, acc, "symmetry",
         evaluate_single_mode_by_symmetry(self, a.q, a.M, a.dist, a.samples,
                a.samples_units, a.modes_to_evaluate[ii][1], a.modes_to_evaluate[ii][2]))
  ELSE [acc EXCEPT !.err = "Your mode (ell,m) is not available!",
                   !.path = Append(@, "unavailable")]

ModeLoop(self, a, ii, acc) ==
  IF ii > Len(a.modes_to_evaluate) \/ acc.err # "none" THEN acc
  ELSE IF InDict(self, a.modes_to_evaluate[ii])
  THEN ModeEvaluated(self, a, ii, acc, "direct",
         evaluate_single_mode(self, a.q, a.M, a.dist, a.samples, a.samples_units,
                              a.modes_to_evaluate[ii][1], a.modes_to_evaluate[ii][2]))
  ELSE IF InDict(self, << a.modes_to_evaluate[ii][1], -a.modes_to_evaluate[ii][2] >>)
          /\ a.fake_neg_modes
  THEN ModeEvaluated(self, a, ii, acc, "symmetry",
         evaluate_single_mode_by_symmetry(self, a.q, a.M, a.dist, a.samples,
                a.samples_units, a.modes_to_evaluate[ii][1], a.modes_to_evaluate[ii][2]))
  ELSE [acc EXCEPT !.err = "Your mode (ell,m) is not available!",
                   !.path = Append(@, "unavailable")]

NoOutput == [err |-> "none", modes |-> << >>, t_mode |-> None, hp_full |-> << >>,
             hc_full |-> << >>, path |-> << >>, indexed |-> << >>,
             warned |-> FALSE, resampled |-> {}]

\* the return statement: t_mode is unbound when the loop body never ran
LoopReturn(out) ==
  IF out.err = "none" /\ out.t_mode = None THEN [out EXCEPT !.err = "UnboundLocalError"]
  ELSE out

\* __call__ from the allocation on, with the whole list looked up before
\* the loop starts
CallOnModes_validated(self, a, full) ==
  IF \E i \in 1..Len(a.modes_to_evaluate) :
       /\ ~InDict(self, a.modes_to_evaluate[i])
       /\ ~(InDict(self, << a.modes_to_evaluate[i][1], -a.modes_to_evaluate[i][2] >>)
             /\ a.fake_neg_modes)
  THEN [NoOutput EXCEPT !.err = "Your mode (ell,m) is not available!",
                        !.modes = a.modes_to_evaluate,
                        !.path = << "unavailable" >>]
  ELSE LoopReturn(ModeLoop(self, a, 1,
                           [NoOutput EXCEPT !.modes = a.modes_to_evaluate,
                                            !.hp_full = full, !.hc_full = full]))

\* __call__, from the allocation of the output arrays on
CallOnModes(self, a, full) ==
  LoopReturn(ModeLoop(self, a, 1,
                      [NoOutput EXCEPT !.modes = a.modes_to_evaluate,
                                       !.hp_full = full, !.hc_full = full]))

\* __call__ from the mode list on, without the test of line 944
CallWithList_unchecked(self, a, gen) ==
  IF gen.err # "none" THEN [NoOutput EXCEPT !.err = gen.err]
  ELSE IF a.mode_sum
  THEN CallOnModes(self, a @@ [modes_to_evaluate |-> gen.list],
                   _allocate_output_array(self, a.samples, 1, a.mode_sum))
  ELSE CallOnModes(self, a @@ [modes_to_evaluate |-> sort_mode_list(gen.list)],
                   _allocate_output_array(self, a.samples, Len(gen.list), a.mode_sum))

\* __call__, from the mode list on
CallWithList(self, a, gen) ==
  IF gen.err # "none" THEN [NoOutput EXCEPT !.err = gen.err]
  ELSE IF a.mode_sum /\ (a.theta = None /\ a.phi = None) /\ Len(gen.list) # 1
  THEN [NoOutput EXCEPT !.err = "Trying to sum modes without theta and phi",
                        !.modes = gen.list]
  ELSE IF a.mode_sum
  THEN CallOnModes(self, a @@ [modes_to_evaluate |-> gen.list],
                   _allocate_output_array(self, a.samples, 1, a.mode_sum))
  ELSE CallOnModes(self, a @@ [modes_to_evaluate |-> sort_mode_list(gen.list)],
                   _allocate_output_array(self, a.samples, Len(gen.list), a.mode_sum))

\* __call__ without the test of fake_neg_modes against the symmetry flag
EvaluateSurrogateCall_unguarded(self, use_sym, a) ==
  CallWithList(self, a, generate_mode_eval_list(self, a.ell, a.m, a.fake_neg_modes))

\* EvaluateSurrogate.__call__ with f_low = None; self is single_mode_dict and
\* a the record of the other arguments
EvaluateSurrogateCall(self, use_sym, a) ==
  IF ~use_sym /\ a.fake_neg_modes
  THEN [NoOutput EXCEPT !.err = "it is not possible to fake m<0 modes"]
  ELSE CallWithList(self, a, generate_mode_eval_list(self, a.ell, a.m, a.fake_neg_modes))

\* the arguments of the __call__ the fast strategy of match_surrogate makes
FastCallArgs(a) ==
  [op |-> "call", q |-> a.q, M |-> a.M, dist |-> a.dist, theta |-> None, phi |-> None,
   z_rot |-> None, samples |-> None, samples_units |-> "dimensionless", ell |-> a.ell,
   m |-> a.m, mode_sum |-> FALSE, fake_neg_modes |-> a.fake_neg_modes]

NoMatch(e) == [err |-> e, min_norm |-> None, opt_solution |-> None, aligned |-> None]

\* match_surrogate, speed 'fast', from the evaluated modes r on
MatchFromModes(a, r) ==
  IF r.err # "none" THEN NoMatch(r.err)
  ELSE minimize_waveform_match(
         h_sphere(r.modes, r.hp_full, r.hc_full, a.theta, R(0)), r.t_mode, a.h_ref)

\* EvaluateSurrogate.match_surrogate; a is the record of its arguments
match_surrogate(self, use_sym, a) ==
  IF (a.M = None /\ a.t_ref_units = "mks")
       \/ (a.M # None /\ a.t_ref_units = "dimensionless")
  THEN NoMatch("surrogate evaluations and reference temporal grid are inconsistent")
  ELSE IF a.speed = "slow"
  THEN \* self.time_all_modes() is evaluated first: no such attribute
       NoMatch("AttributeError")
  ELSE IF a.speed = "fast"
  THEN MatchFromModes(a, EvaluateSurrogateCall(self, use_sym, FastCallArgs(a)))
  ELSE NoMatch("not coded yet")

(***************************************************************************)
(* The state machine: a surrogate file is loaded once into an              *)
(* EvaluateSurrogate, which is then evaluated any number of times.         *)
(***************************************************************************)
VARIABLES
  pc,                          \* "new", "ready" (constructed) or "failed"
  archive,                     \* the surrogate file handed to the constructor
  use_orbital_plane_symmetry,  \* the constructor's flag
  single_mode_dict,            \* self.single_mode_dict
  init_err,                    \* what the constructor raised
  call                         \* the last operation: its arguments and its outcome

vars == << pc, archive, use_orbital_plane_symmetry, single_mode_dict, init_err, call >>

Arch(keys, variants, kind) ==
  [i \in 1..Len(keys) |-> << keys[i], MakeRecord(keys[i], variants[i], kind) >>]

\* the surrogate files of the model
Archives ==
  {Arch(<< << 2, 2 >> >>, << "base" >>, k) : k \in Kinds}
    \cup {Arch(<< << 2, 2 >>, << 3, 3 >> >>, << "base", v >>, "wf_fast") : v \in Variants}
    \cup {Arch(<< << 2, 2 >> >>, << "f" >>, k) : k \in {"wf_poly", "ap"}}
    \cup {Arch(<< << 2, 2 >> >>, << v >>, k) : v \in ShiftedVariants, k \in {"wf_fast", "ap"}}
    \cup {Arch(<< << 2, 2 >>, << 3, 3 >> >>, << "n", "n" >>, "wf_poly"),
          Arch(<< << 3, 3 >>, << 2, 2 >> >>, << "base", "base" >>, "ap"),
          Arch(<< << 2, 2 >>, << 2, -2 >> >>, << "base", "base" >>, "wf_fast"),
          Arch(<< << 2, 0 >>, << 2, 1 >>, << 2, 2 >> >>, << "base", "base", "base" >>,
               "wf_poly"),
          << >>}

\* the (ell, m) pairs an explicit request is built from
ReqModes == {<< 2, 2 >>, << 2, -2 >>, << 2, 0 >>, << 3, 3 >>}

SeqsUpTo(S, n) == UNION {[1..k -> S] : k \in 0..n}

\* the (ell, m) arguments: both None, a maximum ell, parallel lists, and two
\* malformed requests
EllMInputs ==
  {[ell |-> NoneArg, m |-> NoneArg]}
    \cup {[ell |-> IntArg(L), m |-> NoneArg] : L \in 2..MaxEll}
    \cup {[ell |-> ListArg([i \in 1..Len(ps) |-> ps[i][1]]),
           m |-> ListArg([i \in 1..Len(ps) |-> ps[i][2]])] :
            ps \in SeqsUpTo(ReqModes, MaxListLen)}
    \cup {[ell |-> NoneArg, m |-> ListArg(<< 2 >>)],
          [ell |-> ListArg(<< 2, 2 >>), m |-> ListArg(<< 2 >>)]}

Angles == {None, R(1)}

\* the samples argument: None (the native grid) or a grid of its own
SampleGrids == {None, << R(0), RNorm(1, 2) >>}

\* the f_low argument: None, or a bound on the starting frequency
FLows == {None, R(0), R(4), R(1000)}

NoCall == [op |-> "none"]

Init ==
  /\ pc = "new"
  /\ archive \in Archives
  /\ use_orbital_plane_symmetry \in BOOLEAN
  /\ single_mode_dict = EmptyDict
  /\ init_err = "none"
  /\ call = NoCall

\* EvaluateSurrogate(path, use_orbital_plane_symmetry=...)
Construct ==
  /\ pc = "new"
  /\ LET made == EvaluateSurrogateInit(archive, use_orbital_plane_symmetry)
     IN  /\ pc' = IF made.err = "none" THEN "ready" ELSE "failed"
         /\ single_mode_dict' = made.single_mode_dict
         /\ init_err' = made.err
  /\ UNCHANGED << archive, use_orbital_plane_symmetry, call >>

\* what the caller of a raising operation is left with: no arrays
Returned(out) ==
  IF out.err = "none" THEN out
  ELSE [out EXCEPT !.t_mode = None, !.hp_full = << >>, !.hc_full = << >>]

\* the arguments of a multi-mode evaluation together with its outcome
Outcome(self, use_sym, a) == a @@ Returned(EvaluateSurrogateCall(self, use_sym, a))

\* sur(q, theta=, phi=, z_rot=, ell=, m=, mode_sum=, fake_neg_modes=)
Evaluate ==
  /\ pc = "ready"
  /\ call.op = "none"
  /\ \E q \in {R(k) : k \in 1..MaxQ}, theta \in Angles, phi \in Angles,
        z_rot \in Angles, samples \in SampleGrids, lm \in EllMInputs,
        mode_sum \in BOOLEAN, fake_neg_modes \in BOOLEAN :
       call' = Outcome(single_mode_dict, use_orbital_plane_symmetry,
                 [op |-> "call", q |-> q, M |-> None, dist |-> None, theta |-> theta,
                  phi |-> phi, z_rot |-> z_rot, samples |-> samples,
                  samples_units |-> "dimensionless", ell |-> lm.ell, m |-> lm.m,
                  mode_sum |-> mode_sum, fake_neg_modes |-> fake_neg_modes])
  /\ UNCHANGED << pc, archive, use_orbital_plane_symmetry, single_mode_dict, init_err >>

\* the arguments of a single-mode operation together with its outcome
\* __call__ dividing the caller's samples array by t_scale in place
\* (samples /= t_scale) where the source binds a new array
SingleOutcome_inplace(self, a) ==
  [a EXCEPT !.samples =
     IF a.samples # None /\ a.samples_units = "mks"
     THEN [i \in 1..Len(a.samples) |-> RDiv(a.samples[i], Scales(a.M, a.dist).t_scale)]
     ELSE a.samples]
  @@ SingleModeCallFLow(self, a.q, a.M, a.dist, a.f_low, a.samples, a.samples_units,
                        TRUE)

SingleOutcome(self, a) ==
  a @@ SingleModeCallFLow(self, a.q, a.M, a.dist, a.f_low, a.samples, a.samples_units,
                          TRUE)

CheckOutcome(self, a) == a @@ check_training_interval(self, a.x, a.strong_checking)

\* sur.single_mode((ell, m))(q, M, dist, samples=, samples_units=)
EvaluateSingleMode ==
  /\ pc = "ready"
  /\ call.op = "none"
  /\ \E i \in 1..Len(single_mode_dict.keys), q \in {R(k) : k \in 0..MaxQ},
        M \in {None, R(2)}, dist \in {None, R(1)}, f_low \in FLows,
        samples \in SampleGrids,
        samples_units \in {"dimensionless", "mks", "cgs"} :
       call' = SingleOutcome(single_mode_dict.val[single_mode_dict.keys[i]],
                 [op |-> "single", key |-> single_mode_dict.keys[i], q |-> q, M |-> M,
                  dist |-> dist, f_low |-> f_low, samples |-> samples,
                  samples_units |-> samples_units])
  /\ UNCHANGED << pc, archive, use_orbital_plane_symmetry, single_mode_dict, init_err >>

\* sur.single_mode((ell, m)).check_training_interval(x, strong_checking), for
\* x a multiple of 1/4
CheckTrainingInterval ==
  /\ pc = "ready"
  /\ call.op = "none"
  /\ \E i \in 1..Len(single_mode_dict.keys), k \in 0..(4 * MaxQ),
        strong_checking \in BOOLEAN :
       call' = CheckOutcome(single_mode_dict.val[single_mode_dict.keys[i]],
                 [op |-> "check", key |-> single_mode_dict.keys[i], x |-> RNorm(k, 4),
                  strong_checking |-> strong_checking])
  /\ UNCHANGED << pc, archive, use_orbital_plane_symmetry, single_mode_dict, init_err >>

\* the arguments of a derivation by symmetry together with its outcome
SymmetryOutcome(self, a) ==
  a @@ evaluate_single_mode_by_symmetry(self, a.q, a.M, a.dist, a.samples,
                                        a.samples_units, a.ell, a.m)

\* the (ell, m) pairs a derivation by symmetry is asked for
SymModes == {<< 2, -2 >>, << 3, -3 >>, << 2, -1 >>, << 2, 0 >>, << 2, 2 >>}

\* sur.evaluate_single_mode_by_symmetry(q, M, dist, None, samples, samples_units, ell, m)
EvaluateSingleModeBySymmetry ==
  /\ pc = "ready"
  /\ call.op = "none"
  /\ \E lm \in SymModes, q \in {R(k) : k \in 0..MaxQ}, M \in {None, R(2)},
        dist \in {None, R(1)}, samples \in SampleGrids,
        samples_units \in {"dimensionless", "mks"} :
       call' = SymmetryOutcome(single_mode_dict,
                 [op |-> "symmetry", ell |-> lm[1], m |-> lm[2], q |-> q, M |-> M,
                  dist |-> dist, samples |-> samples, samples_units |-> samples_units])
  /\ UNCHANGED << pc, archive, use_orbital_plane_symmetry, single_mode_dict, init_err >>

\* the arguments of a match together with its outcome
MatchOutcome(self, use_sym, a) == a @@ match_surrogate(self, use_sym, a)

\* the (ell, m) arguments of a match
MatchEllM == {[ell |-> NoneArg, m |-> NoneArg],
              [ell |-> ListArg(<< 2 >>), m |-> ListArg(<< 2 >>)],
              [ell |-> ListArg(<< 2 >>), m |-> ListArg(<< 0 >>)]}

\* sur.match_surrogate(t_ref, h_ref, q, M=, theta=, t_ref_units=, ell=, m=,
\*                     fake_neg_modes=, speed=)
MatchSurrogate ==
  /\ pc = "ready"
  /\ call.op = "none"
  /\ \E speed \in {"slow", "fast", "faster"}, q \in {R(1), R(MaxQ)},
        M \in {None, R(2)}, t_ref_units \in {"dimensionless", "mks"},
        lm \in MatchEllM, fake_neg_modes \in BOOLEAN :
       call' = MatchOutcome(single_mode_dict, use_orbital_plane_symmetry,
                 [op |-> "match", t_ref |-> << R(0), R(1) >>,
                  h_ref |-> << C(R(1), R(0)), C(R(0), R(1)) >>, q |-> q, M |-> M,
                  dist |-> None, theta |-> R(1), t_ref_units |-> t_ref_units,
                  ell |-> lm.ell, m |-> lm.m, fake_neg_modes |-> fake_neg_modes,
                  speed |-> speed])
  /\ UNCHANGED << pc, archive, use_orbital_plane_symmetry, single_mode_dict, init_err >>

AffineOutcome(self, a) == a @@ _affine_mapper(self, a.x)

\* the parameter values handed to the affine mapper of a record: multiples
\* of 1/4 and the two ends of its fit_interval
AffineInputs(self) ==
  {RNorm(k, 4) : k \in 0..(4 * MaxQ)} \cup {self.fit_interval[1], self.fit_interval[2]}

\* sur.single_mode((ell, m))._affine_mapper(x)
AffineMap ==
  /\ pc = "ready"
  /\ call.op = "none"
  /\ \E i \in 1..Len(single_mode_dict.keys) :
       \E x \in AffineInputs(single_mode_dict.val[single_mode_dict.keys[i]]) :
         call' = AffineOutcome(single_mode_dict.val[single_mode_dict.keys[i]],
                               [op |-> "affine", key |-> single_mode_dict.keys[i],
                                x |-> x])
  /\ UNCHANGED << pc, archive, use_orbital_plane_symmetry, single_mode_dict, init_err >>

\* the resamplers as _h_sur calls them, with the default ext
ResampleOutcome(self, a) ==
  a @@ [rows |-> CASE a.basis = "B"   -> resample_B(self, a.samples, 1)
                   [] a.basis = "B_1" -> resample_B_1(self, a.samples, 1)
                   [] a.basis = "B_2" -> resample_B_2(self, a.samples, 1)]

\* the bases a record has splines for
SplinedBases(self) ==
  IF self.surrogate_mode_type = "waveform_basis" THEN {"B"} ELSE {"B_1", "B_2"}

\* a step below the tolerance of the resamplers, and one well above it
TinyStep == << 1, 10000000 >>
WideStep == << 1, 4 >>

\* a second sample inside every native grid of the model, and one past the
\* end of every one of them
LaterSteps == {RNorm(1, 2), RNorm(5, 2)}

\* the sample arrays handed to a resampler: the first sample at, very near
\* or well off the first native time t0
ResampleGrids(t0) ==
  {<< RAdd(t0, d), RAdd(t0, e) >> :
     d \in {R(0), TinyStep, RSub(R(0), TinyStep), WideStep, RSub(R(0), WideStep)},
     e \in LaterSteps}

\* sur.single_mode((ell, m)).resample_B(samples), .resample_B_1(samples),
\* .resample_B_2(samples)
Resample ==
  /\ pc = "ready"
  /\ call.op = "none"
  /\ \E i \in 1..Len(single_mode_dict.keys) :
       \E basis \in SplinedBases(single_mode_dict.val[single_mode_dict.keys[i]]),
          samples \in ResampleGrids(single_mode_dict.val[single_mode_dict.keys[i]].times[1]) :
         call' = ResampleOutcome(single_mode_dict.val[single_mode_dict.keys[i]],
                                 [op |-> "resample", key |-> single_mode_dict.keys[i],
                                  basis |-> basis, samples |-> samples])
  /\ UNCHANGED << pc, archive, use_orbital_plane_symmetry, single_mode_dict, init_err >>

\* what the caller of _extend_mode_list_minus_m(mode_list) holds afterwards:
\* returned is the list handed back (None after the ValueError), after is
\* the caller's own list, which the appends were made to, and same_object
\* tells that the two are one list object
ExtendOutcome(a, r) ==
  a @@ [err |-> r.err,
        returned |-> IF r.err = "none" THEN r.list ELSE None,
        after |-> r.list,
        same_object |-> (r.err = "none")]

\* sur._extend_mode_list_minus_m(mode_list)
ExtendModeList ==
  /\ pc = "ready"
  /\ call.op = "none"
  /\ \E mode_list \in SeqsUpTo(ReqModes, MaxListLen) :
       call' = ExtendOutcome([op |-> "extend", mode_list |-> mode_list],
                             _extend_mode_list_minus_m(mode_list))
  /\ UNCHANGED << pc, archive, use_orbital_plane_symmetry, single_mode_dict, init_err >>

ListOutcome(a, gen) ==
  a @@ [err |-> gen.err, modes |-> IF gen.err = "none" THEN gen.list ELSE << >>]

\* sur.generate_mode_eval_list(ell, m, minus_m)
GenerateModeEvalList ==
  /\ pc = "ready"
  /\ call.op = "none"
  /\ \E lm \in EllMInputs, minus_m \in BOOLEAN :
       call' = ListOutcome([op |-> "modes", ell |-> lm.ell, m |-> lm.m,
                            minus_m |-> minus_m],
                           generate_mode_eval_list(single_mode_dict, lm.ell, lm.m,
                                                   minus_m))
  /\ UNCHANGED << pc, archive, use_orbital_plane_symmetry, single_mode_dict, init_err >>

\* the caller takes the outcome; the core is synchronous, so the next
\* operation starts only then
Return ==
  /\ call.op # "none"
  /\ call' = NoCall
  /\ UNCHANGED << pc, archive, use_orbital_plane_symmetry, single_mode_dict, init_err >>

Next ==
  \/ Construct
  \/ Evaluate
  \/ EvaluateSingleMode
  \/ CheckTrainingInterval
  \/ EvaluateSingleModeBySymmetry
  \/ MatchSurrogate
  \/ AffineMap
  \/ ExtendModeList
  \/ Resample
  \/ GenerateModeEvalList
  \/ Return

Spec == Init /\ [][Next]_vars

(***************************************************************************)
(* Properties.                                                             *)
(***************************************************************************)
OutOfRangeErr == "Surrogate not trained at requested parameter value"
NegativeModesErr == "your list already has negative modes!"
UnavailableErr == "Your mode (ell,m) is not available!"
SumErr == "Trying to sum modes without theta and phi"

\* x_min <= x <= x_max for the fit_interval of record rec
InInterval(rec, x) ==
  /\ x[1] * rec.fit_interval[1][2] >= rec.fit_interval[1][1] * x[2]
  /\ x[1] * rec.fit_interval[2][2] <= rec.fit_interval[2][1] * x[2]

IsStored(key) == \E i \in 1..Len(single_mode_dict.keys) : single_mode_dict.keys[i] = key

Count(seq, x) == Cardinality({i \in 1..Len(seq) : seq[i] = x})

\* C1: check_training_interval is inclusive: for x_min <= x <= x_max it
\* neither raises nor warns in either mode; for x outside the interval it
\* raises the out-of-range error under strict checking, and under lenient
\* checking it raises nothing and only warns.
C1_CheckInclusive ==
  call.op = "check" =>
    IF InInterval(single_mode_dict.val[call.key], call.x)
    THEN call.err = "none" /\ ~call.warned
    ELSE IF call.strong_checking
         THEN call.err = OutOfRangeErr
         ELSE call.err = "none" /\ call.warned

\* a lenient check of a parameter outside the interval has warned and returned
C1_Witness ==
  /\ call.op = "check"
  /\ ~call.strong_checking
  /\ ~InInterval(single_mode_dict.val[call.key], call.x)
  /\ call.warned

\* the internal parameter of record rec for the mass ratio q
Internal(rec, q) == get_surr_params(rec.get_surr_params, q)

\* C2 as claimed: an out-of-range parameter that reaches a single-mode
\* evaluator through the multi-mode evaluator is handled leniently: a warning
\* only, and the evaluation is not stopped by the out-of-range error.
C2_LenientWhenChained ==
  (/\ call.op = "call"
   /\ call.indexed # << >>
   /\ ~InInterval(single_mode_dict.val[call.indexed[1]],
                  Internal(single_mode_dict.val[call.indexed[1]], call.q)))
    => call.err # OutOfRangeErr /\ call.warned

\* C2 as amended: the check is strict at both entry points.  A direct
\* single-mode call with an out-of-range parameter fails with the
\* out-of-range error, and so does a multi-mode evaluation as soon as the
\* parameter reaches a single-mode evaluator; no evaluation returns with a
\* warning only.
C2_StrictAtBothEntries ==
  /\ (/\ call.op = "single"
      /\ call.samples_units \in {"dimensionless", "mks"}
      /\ ~InInterval(single_mode_dict.val[call.key],
                     Internal(single_mode_dict.val[call.key], call.q)))
       => call.err = OutOfRangeErr
  /\ (/\ call.op = "call"
      /\ call.indexed # << >>
      /\ ~InInterval(single_mode_dict.val[call.indexed[1]],
                     Internal(single_mode_dict.val[call.indexed[1]], call.q)))
       => call.err = OutOfRangeErr /\ Len(call.indexed) = 1
  /\ call.op \in {"single", "call"} => ~call.warned

\* a multi-mode evaluation was stopped by the out-of-range error of a mode
C2_Witness ==
  /\ call.op = "call"
  /\ call.indexed # << >>
  /\ call.err = OutOfRangeErr

\* the collection of C3: built with orbital-plane symmetry, (2,2) modeled and
\* (2,-2) not
SymmetricWith22 ==
  /\ pc = "ready"
  /\ use_orbital_plane_symmetry
  /\ IsStored(<< 2, 2 >>)
  /\ ~IsStored(<< 2, -2 >>)

\* a multi-mode evaluation that requests the single pair (ell, m) explicitly
Requests(ell, m) ==
  /\ call.op = "call"
  /\ call.ell = ListArg(<< ell >>)
  /\ call.m = ListArg(<< m >>)

\* C3 as claimed: on such a collection the explicit request ell=[2], m=[-2]
\* at a trained parameter succeeds, the (2,-2) mode coming from the symmetry
\* path with single_mode_dict indexed by (2,2) only.
C3_ExplicitMinusMSucceeds ==
  (/\ SymmetricWith22
   /\ Requests(2, -2)
   /\ call.theta = None /\ call.phi = None
   /\ single_mode_dict.val[<< 2, 2 >>].surrogate_mode_type = "waveform_basis"
   /\ InInterval(single_mode_dict.val[<< 2, 2 >>],
                 Internal(single_mode_dict.val[<< 2, 2 >>], call.q)))
    => /\ call.err = "none"
       /\ call.path = << "symmetry" >>
       /\ call.indexed = << << 2, 2 >> >>

\* C3 as amended: the explicit request ell=[2], m=[-2] never succeeds and
\* evaluates no mode: with fake_neg_modes it fails with "your list already
\* has negative modes!", without it with "Your mode (ell,m) is not
\* available!".  The derived (2,-2) mode is what the request ell=[2], m=[2]
\* with fake_neg_modes produces next to (2,2): whenever that request returns,
\* its modes are (2,2) and (2,-2), (2,-2) came from the symmetry path, and
\* single_mode_dict was indexed with (2,2) only.
C3_MinusMOnlyByExtension ==
  SymmetricWith22 =>
    /\ Requests(2, -2) =>
         /\ call.err = IF call.fake_neg_modes THEN NegativeModesErr ELSE UnavailableErr
         /\ call.indexed = << >>
    /\ (Requests(2, 2) /\ call.fake_neg_modes /\ call.err = "none") =>
         /\ Len(call.modes) = 2
         /\ \E i \in 1..2 : call.modes[i] = << 2, -2 >> /\ call.path[i] = "symmetry"
         /\ \E i \in 1..2 : call.modes[i] = << 2, 2 >> /\ call.path[i] = "direct"
         /\ call.indexed = << << 2, 2 >>, << 2, 2 >> >>

\* the request ell=[2], m=[2] with fake_neg_modes returned both modes
C3_DerivedWitness ==
  /\ SymmetricWith22
  /\ Requests(2, 2)
  /\ call.fake_neg_modes
  /\ call.err = "none"
  /\ Len(call.modes) = 2

\* the request ell=[2], m=[-2] with fake_neg_modes was refused
C3_Witness ==
  /\ SymmetricWith22
  /\ Requests(2, -2)
  /\ call.fake_neg_modes
  /\ call.err = NegativeModesErr

\* how the loop of __call__ resolves the mode lm when fake_neg_modes is fake
Resolution(lm, fake) ==
  IF IsStored(lm) THEN "direct"
  ELSE IF IsStored(<< lm[1], -lm[2] >>) /\ fake THEN "symmetry"
  ELSE "unavailable"

\* the key of single_mode_dict the resolution of lm evaluates
KeyUsed(lm, how) == IF how = "direct" THEN lm ELSE << lm[1], -lm[2] >>

ModesToEvaluate ==
  generate_mode_eval_list(single_mode_dict, call.ell, call.m, call.fake_neg_modes)

\* a summed evaluation without angular position that got as far as its mode list
SumsWithoutAngles ==
  /\ call.op = "call"
  /\ call.mode_sum
  /\ call.theta = None /\ call.phi = None
  /\ use_orbital_plane_symmetry \/ ~call.fake_neg_modes
  /\ ModesToEvaluate.err = "none"

\* C5: with mode_sum=True and neither theta nor phi, an evaluation whose
\* list of modes has more than one entry fails with "Trying to sum modes
\* without theta and phi" before any mode is looked up or evaluated; with
\* exactly one entry it does not fail with that error.
C5_SumNeedsAngles ==
  SumsWithoutAngles =>
    /\ Len(ModesToEvaluate.list) > 1 =>
         call.err = SumErr /\ call.path = << >> /\ call.indexed = << >>
    /\ Len(ModesToEvaluate.list) = 1 =>
         call.err # SumErr /\ Len(call.path) = 1

\* the summation of two modes without angles was refused
C5_Witness ==
  /\ SumsWithoutAngles
  /\ Len(ModesToEvaluate.list) = 2
  /\ call.err = SumErr

\* a single mode was evaluated with mode_sum=True and without angles
C5_SingleModeWitness ==
  /\ SumsWithoutAngles
  /\ Len(ModesToEvaluate.list) = 1
  /\ call.err = "none"

\* a multi-mode evaluation that is given exactly one of the two sphere angles
OneAngleOnly ==
  /\ call.op = "call"
  /\ (call.theta = None) # (call.phi = None)

\* C6: an evaluation given only one of theta and phi fails, whichever of the
\* two is missing, and returns no waveform.
C6_OneAngleIsFatal ==
  OneAngleOnly =>
    /\ call.err # "none"
    /\ call.t_mode = None /\ call.hp_full = << >> /\ call.hc_full = << >>

\* theta without phi was refused
C6_Witness ==
  /\ OneAngleOnly
  /\ call.theta # None
  /\ call.err = "phi must have a value"

\* phi without theta returned a waveform
C6_PhiAloneReturns ==
  /\ OneAngleOnly
  /\ call.theta = None
  /\ call.err = "none"
  /\ call.hp_full # << >>

\* column c of a two-dimensional output array
Column(full, c) == [t \in 1..Len(full) |-> full[t][c]]

\* an evaluation that returned its modes side by side, neither projected on
\* the sphere nor rotated
ReturnsBareModes ==
  /\ call.op = "call"
  /\ call.err = "none"
  /\ ~call.mode_sum
  /\ call.theta = None
  /\ call.z_rot = None
  /\ Len(call.modes) >= 2

\* column i holds a mode derived by symmetry and column j the modeled mode
\* it was derived from
DerivedFrom(i, j) ==
  /\ call.path[i] = "symmetry"
  /\ call.modes[j] = << call.modes[i][1], -call.modes[i][2] >>

\* the modeled (ell, -m) mode at the arguments of the derivation in `call`
ModeledPartner ==
  evaluate_single_mode(single_mode_dict, call.q, call.M, call.dist, call.samples,
                       call.samples_units, call.ell, -call.m)

\* hp and hc are (-1)^ell hp_modeled and -(-1)^ell hc_modeled, sample by sample
Mirrors(ell, hp, hc, hp_modeled, hc_modeled) ==
  /\ Len(hp) = Len(hp_modeled) /\ Len(hc) = Len(hc_modeled)
  /\ \A t \in 1..Len(hp) : hp[t] = RMul(R(PowMinus1(ell)), hp_modeled[t])
  /\ \A t \in 1..Len(hc) : hc[t] = RNeg(RMul(R(PowMinus1(ell)), hc_modeled[t]))

\* C7: a mode (l,-m) derived by evaluate_single_mode_by_symmetry equals,
\* sample by sample, hp = (-1)^l hp_modeled and hc = -(-1)^l hc_modeled of
\* the modeled (l,m) mode, m > 0, evaluated at the same arguments, on the
\* time array of the modeled mode; applying the relation to the derived mode
\* gives the modeled mode back.  In a multi-mode evaluation that returns its
\* modes side by side, the columns of a derived and of its modeled mode are
\* related in the same way.
C7_SymmetryLaw ==
  /\ (call.op = "symmetry" /\ call.err = "none") =>
       /\ call.m < 0
       /\ IsStored(<< call.ell, -call.m >>)
       /\ ModeledPartner.err = "none"
       /\ call.t = ModeledPartner.t
       /\ Len(call.hp) = Len(call.t)
       /\ Mirrors(call.ell, call.hp, call.hc, ModeledPartner.hp, ModeledPartner.hc)
       /\ _generate_minus_m_mode(call.hp, call.hc, call.ell, -call.m).hp
            = ModeledPartner.hp
       /\ _generate_minus_m_mode(call.hp, call.hc, call.ell, -call.m).hc
            = ModeledPartner.hc
  /\ ReturnsBareModes =>
       \A i, j \in 1..Len(call.modes) :
         DerivedFrom(i, j) =>
           /\ call.path[j] = "direct"
           /\ call.modes[j][2] > 0
           /\ Mirrors(call.modes[i][1], Column(call.hp_full, i), Column(call.hc_full, i),
                      Column(call.hp_full, j), Column(call.hc_full, j))

\* a (3,-3) mode was derived on a sample grid of its own at physical scales,
\* with both polarizations nonzero at the first sample
C7_Witness ==
  /\ call.op = "symmetry"
  /\ call.err = "none"
  /\ call.ell = 3
  /\ call.samples # None
  /\ call.M # None /\ call.dist # None
  /\ call.hp[1] # R(0)
  /\ call.hc[1] # R(0)

\* a multi-mode evaluation on a sample grid of its own returned a derived
\* (3,-3) mode next to the modeled (3,3) mode
C7_OddWitness ==
  /\ ReturnsBareModes
  /\ call.samples # None
  /\ \E i, j \in 1..Len(call.modes) :
       /\ DerivedFrom(i, j)
       /\ call.modes[i] = << 3, -3 >>
       /\ call.hp_full[1][i] # R(0)
       /\ call.hc_full[1][i] # R(0)

\* a (2,-2) mode was derived on the native grid
C7_EvenWitness ==
  /\ ReturnsBareModes
  /\ call.samples = None
  /\ \E i, j \in 1..Len(call.modes) :
       /\ DerivedFrom(i, j)
       /\ call.modes[i] = << 2, -2 >>
       /\ call.hp_full[1][i] # R(0)
       /\ call.hc_full[1][i] # R(0)

\* C8: in a constructed multi-mode surrogate any two mode records have equal
\* time samples (the values), equal fit_interval and the same
\* parameterization; a collection that differs in one of these is never
\* constructed.
C8_RecordsAgree ==
  pc = "ready" =>
    \A i, j \in 1..Len(single_mode_dict.keys) :
      /\ time(single_mode_dict.val[single_mode_dict.keys[i]])
           = time(single_mode_dict.val[single_mode_dict.keys[j]])
      /\ single_mode_dict.val[single_mode_dict.keys[i]].fit_interval
           = single_mode_dict.val[single_mode_dict.keys[j]].fit_interval
      /\ single_mode_dict.val[single_mode_dict.keys[i]].get_surr_params
           = single_mode_dict.val[single_mode_dict.keys[j]].get_surr_params

\* a collection whose records differ in fit_interval was rejected
C8_Witness ==
  /\ pc = "failed"
  /\ init_err = "inconsistent single mode parameter grids"

\* a collection whose records differ in the values of their time samples
\* was constructed
C8_DifferentGridsConstructed ==
  /\ pc = "ready"
  /\ \E i, j \in 1..Len(single_mode_dict.keys) :
       time(single_mode_dict.val[single_mode_dict.keys[i]])
         # time(single_mode_dict.val[single_mode_dict.keys[j]])

\* the elements of a sequence
Range(seq) == {seq[i] : i \in 1..Len(seq)}

\* the pairs (L, mm) with 2 <= L <= LMax and 0 <= mm <= L
PairsUpTo(LMax) == {lm \in (2..LMax) \X (0..LMax) : lm[2] <= lm[1]}

\* C9: without negative-m generation generate_mode_eval_list returns
\* (a) for ell = m = None the stored mode keys, each once; (b) for an integer
\* ell = LMax and m = None the pairs (L, mm), 2 <= L <= LMax, 0 <= mm <= L,
\* each once, modeled or not; (c) for parallel lists ell and m the pairs
\* (ell[i], m[i]) in input order.
C9_ModeListForms ==
  (call.op = "modes" /\ ~call.minus_m) =>
    /\ (call.ell = NoneArg /\ call.m = NoneArg) =>
         /\ call.err = "none"
         /\ Range(call.modes) = Range(single_mode_dict.keys)
         /\ \A x \in Range(call.modes) : Count(call.modes, x) = 1
    /\ (call.ell.tag = "int" /\ call.m = NoneArg) =>
         /\ call.err = "none"
         /\ Range(call.modes) = PairsUpTo(call.ell.v)
         /\ \A x \in Range(call.modes) : Count(call.modes, x) = 1
    /\ (call.ell.tag = "list" /\ call.m.tag = "list"
          /\ Len(call.ell.v) = Len(call.m.v)) =>
         /\ call.err = "none"
         /\ Len(call.modes) = Len(call.ell.v)
         /\ \A i \in 1..Len(call.modes) :
              call.modes[i] = << call.ell.v[i], call.m.v[i] >>

\* the list for ell = 3 holds modes the collection does not model
C9_Witness ==
  /\ call.op = "modes"
  /\ ~call.minus_m
  /\ call.ell = IntArg(3)
  /\ call.err = "none"
  /\ \E x \in Range(call.modes) : ~IsStored(x)
  /\ << 3, 3 >> \in Range(call.modes)

\* the list handed to _extend_mode_list_minus_m by the request in `call`
InputModes == generate_mode_eval_list(single_mode_dict, call.ell, call.m, FALSE)

\* the pairs a mode list of the model can hold
AllPairs == (0..(MaxEll + 1)) \X ((-(MaxEll + 1))..(MaxEll + 1))

\* C10: with negative-m generation the list keeps the input pairs, in
\* order, and holds besides them (l,-m) once for every input pair with
\* m > 0 and nothing else (m = 0 pairs are not duplicated); if an input
\* pair has m < 0 the request fails with "your list already has negative
\* modes!" and returns no list.
C10_MinusMExtension ==
  (call.op = "modes" /\ call.minus_m /\ InputModes.err = "none") =>
    IF \E x \in Range(InputModes.list) : x[2] < 0
    THEN call.err = NegativeModesErr /\ call.modes = << >>
    ELSE /\ call.err = "none"
         /\ Range(call.modes) \subseteq AllPairs
         /\ SubSeq(call.modes, 1, Len(InputModes.list)) = InputModes.list
         /\ \A x \in AllPairs :
              Count(call.modes, x) =
                IF x[2] < 0 THEN Count(InputModes.list, << x[1], -x[2] >>)
                ELSE Count(InputModes.list, x)

\* a list with an m = 0 and an m > 0 pair was extended
C10_Witness ==
  /\ call.op = "modes"
  /\ call.minus_m
  /\ call.err = "none"
  /\ \E x \in Range(InputModes.list) : x[2] = 0
  /\ \E x \in Range(InputModes.list) : x[2] > 0
  /\ Len(call.modes) > Len(InputModes.list)

\* a list with an m < 0 pair was refused
C10_RefusedWitness ==
  /\ call.op = "modes"
  /\ call.minus_m
  /\ InputModes.err = "none"
  /\ call.err = NegativeModesErr

\* the single-mode evaluation of `call` without the check of f_low
BareMode ==
  SingleModeCall(single_mode_dict.val[call.key], call.q, call.M, call.dist,
                 call.samples, call.samples_units, TRUE)

\* the starting frequency of that mode
StartFreq == find_instant_freq(BareMode.hp, BareMode.hc, BareMode.t, None).f_instant

\* a single-mode evaluation with f_low given that got as far as the check of
\* the starting frequency
ChecksFLow ==
  /\ call.op = "single"
  /\ call.f_low # None
  /\ BareMode.err = "none"

\* C11: with f_low given, a starting frequency above f_low is signalled
\* without stopping the evaluation: the call returns (t, hp, hc) whether or
\* not the starting frequency exceeds f_low.
C11_LowFreqWarningNonFatal ==
  ChecksFLow =>
    /\ call.err = "none"
    /\ call.t = BareMode.t
    /\ call.hp = BareMode.hp
    /\ call.hc = BareMode.hc

\* a starting frequency not above f_low: the mode was returned
C11_Witness ==
  /\ ChecksFLow
  /\ ~RLess(call.f_low, StartFreq)
  /\ StartFreq # R(0)
  /\ call.err = "none"
  /\ call.hp = BareMode.hp

\* a starting frequency above f_low ended the evaluation
C11_RaisedWitness ==
  /\ ChecksFLow
  /\ RLess(call.f_low, StartFreq)
  /\ call.err = "starting frequency is"
  /\ call.hp = << >>

\* the evaluation of the modes the match in `call` rests on
MatchModes ==
  EvaluateSurrogateCall(single_mode_dict, use_orbital_plane_symmetry, FastCallArgs(call))

\* a match with consistent units, a trained parameter and available modes
WellPosedMatch ==
  /\ call.op = "match"
  /\ (call.M = None) = (call.t_ref_units = "dimensionless")
  /\ call.speed \in {"slow", "fast"}
  /\ MatchModes.err = "none"

\* C12: with either strategy a well-posed match runs to completion and
\* returns the minimized mismatch, the optimal (dt, dphi) and the list
\* [common_times, aligned surrogate waveform, reference waveform].
C12_BothStrategiesComplete ==
  WellPosedMatch =>
    /\ call.err = "none"
    /\ call.min_norm # None
    /\ call.opt_solution # None
    /\ Len(call.aligned) = 3

\* a match with the fast strategy returned its triple
C12_Witness ==
  /\ WellPosedMatch
  /\ call.speed = "fast"
  /\ call.err = "none"
  /\ Len(call.aligned) = 3

\* the positions of the list of `call` whose mode is neither modeled nor
\* derivable by symmetry
UnavailableAt ==
  {i \in 1..Len(call.modes) :
     Resolution(call.modes[i], call.fake_neg_modes) = "unavailable"}

FirstUnavailable == CHOOSE i \in UnavailableAt : \A k \in UnavailableAt : i <= k

\* C13 as claimed: a list with an unavailable mode at any position makes the
\* evaluation fail before any single-mode evaluator is invoked.
C13_ValidationBeforeLoop ==
  (call.op = "call" /\ UnavailableAt # {}) =>
    call.err # "none" /\ call.indexed = << >>

\* C13 as amended: availability is looked up mode by mode inside the loop.
\* A list with an unavailable mode never returns a waveform; the evaluators
\* of the modes after the first unavailable one are never invoked, and when
\* the evaluation fails as unavailable, the evaluators of all the modes
\* before it, in the order of evaluation, have been invoked.
C13_ValidationInsideLoop ==
  (call.op = "call" /\ UnavailableAt # {}) =>
    /\ call.err # "none"
    /\ call.hp_full = << >>
    /\ Len(call.indexed) <= FirstUnavailable - 1
    /\ call.err = UnavailableErr =>
         /\ Len(call.path) = FirstUnavailable
         /\ Len(call.indexed) = FirstUnavailable - 1
         /\ \A i \in 1..Len(call.indexed) :
              call.indexed[i] = KeyUsed(call.modes[i], call.path[i])

\* an unavailable mode in second place ended an evaluation whose first mode
\* had been evaluated
C13_Witness ==
  /\ call.op = "call"
  /\ UnavailableAt # {}
  /\ FirstUnavailable = 2
  /\ call.err = UnavailableErr
  /\ Len(call.indexed) = 1

\* the steps that work on the converted parameter
WorkSteps == {"_affine_mapper", "_amp_eval", "_phase_eval", "_norm_eval", "np.dot",
              "resample_B", "resample_B_1", "resample_B_2"}

\* C14: a single-mode evaluation converts the parameter and validates it
\* against fit_interval before the affine map, the fits, the basis products
\* and the resamplings: these run only after both, and only for a parameter
\* inside the interval; on a parameter outside it the evaluation ends with
\* the out-of-range error and none of them has run.
C14_ValidatedBeforeWork ==
  call.op = "single" =>
    /\ \A i \in 1..Len(call.steps) :
         call.steps[i] \in WorkSteps =>
           /\ i > 2
           /\ SubSeq(call.steps, 1, 2) = CheckSteps
           /\ InInterval(single_mode_dict.val[call.key],
                         Internal(single_mode_dict.val[call.key], call.q))
    /\ (/\ call.samples_units \in {"dimensionless", "mks"}
        /\ ~InInterval(single_mode_dict.val[call.key],
                       Internal(single_mode_dict.val[call.key], call.q))) =>
         /\ call.err = OutOfRangeErr
         /\ call.steps = CheckSteps
         /\ call.resampled = {}
         /\ call.hp = << >> /\ call.hc = << >>

\* an evaluation on a sample grid of its own was stopped by the check
C14_Witness ==
  /\ call.op = "single"
  /\ call.samples # None
  /\ call.err = OutOfRangeErr
  /\ call.steps = CheckSteps

\* an evaluation ran all its steps after the check
C14_WorkedWitness ==
  /\ call.op = "single"
  /\ call.err = "none"
  /\ Len(call.steps) > 6
  /\ "resample_B" \in Range(call.steps)

\* a <= b for rationals
RLeq(a, b) == ~RLess(b, a)

\* C15: for a record with x_min < x_max the affine mapper sends x_min to -1
\* and x_max to 1 (minus1_to_1), x_min to 0 and x_max to 1 (zero_to_1), every
\* x to itself (none); each of the three is monotonic; any other kind fails
\* with "unknown affine map" and yields no value.
C15_AffineMapper ==
  call.op = "affine" =>
    LET self == single_mode_dict.val[call.key]
    IN  /\ RLess(self.fit_interval[1], self.fit_interval[2])
        /\ self.affine_map = "minus1_to_1" =>
             /\ call.err = "none"
             /\ call.x = self.fit_interval[1] => call.x_0 = R(-1)
             /\ call.x = self.fit_interval[2] => call.x_0 = R(1)
        /\ self.affine_map = "zero_to_1" =>
             /\ call.err = "none"
             /\ call.x = self.fit_interval[1] => call.x_0 = R(0)
             /\ call.x = self.fit_interval[2] => call.x_0 = R(1)
        /\ self.affine_map = "none" => call.err = "none" /\ call.x_0 = call.x
        /\ self.affine_map \in {"minus1_to_1", "zero_to_1", "none"} =>
             \A y \in AffineInputs(self) :
               RLeq(call.x, y) => RLeq(call.x_0, _affine_mapper(self, y).x_0)
        /\ self.affine_map \notin {"minus1_to_1", "zero_to_1", "none"} =>
             call.err = "unknown affine map" /\ call.x_0 = None

\* the upper end of the interval [1/5, 1/4] was mapped to 1 by minus1_to_1
C15_Witness ==
  /\ call.op = "affine"
  /\ single_mode_dict.val[call.key].affine_map = "minus1_to_1"
  /\ call.x = RNorm(1, 4)
  /\ call.x = single_mode_dict.val[call.key].fit_interval[2]
  /\ call.x_0 = R(1)

\* an unknown kind was refused
C15_UnknownWitness ==
  /\ call.op = "affine"
  /\ call.err = "unknown affine map"

\* the lower end of the interval [1, 3] was mapped to 0 by zero_to_1
C15_ZeroWitness ==
  /\ call.op = "affine"
  /\ single_mode_dict.val[call.key].affine_map = "zero_to_1"
  /\ single_mode_dict.val[call.key].fit_interval = << R(1), R(3) >>
  /\ call.x = R(1)
  /\ call.x_0 = R(0)

\* the record a single mode call was made on, and its EIM coefficients
CalledRecord == single_mode_dict.val[call.key]

CalledEim ==
  _eim_coeffs(CalledRecord, get_surr_params(CalledRecord.get_surr_params, call.q),
              CalledRecord.surrogate_mode_type)

\* the complex mode the stored bases give, before the amplitude scaling
StoredProduct ==
  IF CalledRecord.surrogate_mode_type = "waveform_basis"
  THEN Dot(CalledRecord.B, CalledEim.h_EIM)
  ELSE AmpPhaseSurrogate(CalledEim.nrm_eval,
                         RDot(CalledRecord.B_1, CalledEim.amp_eval),
                         RDot(CalledRecord.B_2, CalledEim.phase_eval))

Resamplers == {"resample_B", "resample_B_1", "resample_B_2"}

ResampleSteps == {i \in 1..Len(call.steps) : call.steps[i] \in Resamplers}

\* C16: a single mode evaluation that returns called a resampler exactly when
\* samples were given (resample_B for a waveform_basis record, resample_B_1
\* and resample_B_2 for an amp_phase_basis record); with samples = None the
\* returned mode is amp0 times the product of the stored B with h_EIM, or
\* amp0 times the combination of the stored B_1 and B_2 products.
C16_ResampleOnlyOnSamples ==
  (call.op = "single" /\ call.err = "none") =>
    /\ call.samples = None =>
         /\ call.resampled = {}
         /\ ResampleSteps = {}
         /\ call.hp = [i \in 1..Len(StoredProduct) |->
                         RMul(Scales(call.M, call.dist).amp0, StoredProduct[i].re)]
         /\ call.hc = [i \in 1..Len(StoredProduct) |->
                         RMul(Scales(call.M, call.dist).amp0, StoredProduct[i].im)]
    /\ call.samples # None =>
         /\ call.resampled =
              IF CalledRecord.surrogate_mode_type = "waveform_basis"
              THEN {"resample_B"} ELSE {"resample_B_1", "resample_B_2"}
         /\ ResampleSteps # {}

\* a waveform_basis record was evaluated on its native grid
C16_Witness ==
  /\ call.op = "single"
  /\ call.err = "none"
  /\ call.samples = None
  /\ CalledRecord.surrogate_mode_type = "waveform_basis"
  /\ Len(call.hp) = Len(CalledRecord.times)

\* an amp_phase_basis record was evaluated on its native grid
C16_AmpPhaseWitness ==
  /\ call.op = "single"
  /\ call.err = "none"
  /\ call.samples = None
  /\ CalledRecord.surrogate_mode_type = "amp_phase_basis"
  /\ Len(call.hp) = Len(CalledRecord.times)

\* a record of either kind was evaluated at given samples
C16_SamplesWitness ==
  /\ call.op = "single"
  /\ call.err = "none"
  /\ call.samples # None
  /\ "resample_B_1" \in call.resampled

\* the operations that evaluate, resample or build a mode list
EvaluationOps == {"single", "call", "symmetry", "modes"}

\* the same operation made again, in the present state, with the arguments
\* the caller holds after the first one
SingleAgain ==
  [op |-> "single", key |-> call.key, q |-> call.q, M |-> call.M, dist |-> call.dist,
   f_low |-> call.f_low, samples |-> call.samples, samples_units |-> call.samples_units]
  @@ SingleModeCallFLow(CalledRecord, call.q, call.M, call.dist, call.f_low,
                        call.samples, call.samples_units, TRUE)

CallAgain ==
  [op |-> "call", q |-> call.q, M |-> call.M, dist |-> call.dist, theta |-> call.theta,
   phi |-> call.phi, z_rot |-> call.z_rot, samples |-> call.samples,
   samples_units |-> call.samples_units, ell |-> call.ell, m |-> call.m,
   mode_sum |-> call.mode_sum, fake_neg_modes |-> call.fake_neg_modes]
  @@ Returned(EvaluateSurrogateCall(single_mode_dict, use_orbital_plane_symmetry, call))

SymmetryAgain ==
  [op |-> "symmetry", ell |-> call.ell, m |-> call.m, q |-> call.q, M |-> call.M,
   dist |-> call.dist, samples |-> call.samples, samples_units |-> call.samples_units]
  @@ evaluate_single_mode_by_symmetry(single_mode_dict, call.q, call.M, call.dist,
                                      call.samples, call.samples_units, call.ell, call.m)

ModesAgain ==
  ListOutcome([op |-> "modes", ell |-> call.ell, m |-> call.m, minus_m |-> call.minus_m],
              generate_mode_eval_list(single_mode_dict, call.ell, call.m, call.minus_m))

C17_MultiModeWitness ==
  /\ pc = "ready"
  /\ call.op = "call"
  /\ call.err = "none"
  /\ call.samples # None

\* row x of a basis of the called record, each column evaluated by its
\* spline with the given ext
BasisRow(basis, x, ext) ==
  CASE basis = "B" ->
         [jj \in 1..Len(CalledRecord.B[1]) |->
            C(splev(x, CalledRecord.times,
                    [i \in 1..Len(CalledRecord.times) |-> CalledRecord.B[i][jj].re], ext),
              splev(x, CalledRecord.times,
                    [i \in 1..Len(CalledRecord.times) |-> CalledRecord.B[i][jj].im], ext))]
    [] basis = "B_1" ->
         [jj \in 1..Len(CalledRecord.B_1[1]) |->
            splev(x, CalledRecord.times,
                  [i \in 1..Len(CalledRecord.times) |-> CalledRecord.B_1[i][jj]], ext)]
    [] basis = "B_2" ->
         [jj \in 1..Len(CalledRecord.B_2[1]) |->
            splev(x, CalledRecord.times,
                  [i \in 1..Len(CalledRecord.times) |-> CalledRecord.B_2[i][jj]], ext)]

\* s0 within the relative tolerance of t0, or the absolute one when t0 = 0
WithinTolerance(s0, t0) ==
  IF t0 = R(0) THEN RLess(RAbs(s0), NearTol)
  ELSE RLess(RAbs(RSub(s0, t0)), RMul(RAbs(t0), NearTol))

\* C18: for a record of either basis kind and a first native time t0 of any
\* sign, row 0 of the resampled basis (B, B_1 or B_2) is the value of the
\* splines at s0 itself (ext=0) when s0 is within the tolerance of t0, and
\* is evaluated like the other rows (ext=1, zero outside the grid) when not.
C18_NearBoundaryRow ==
  call.op = "resample" =>
    call.rows[1] =
      IF WithinTolerance(call.samples[1], CalledRecord.times[1])
      THEN BasisRow(call.basis, call.samples[1], 0)
      ELSE BasisRow(call.basis, call.samples[1], 1)

\* B_1 or B_2 was resampled with s0 just below a positive t0, and row 0 came
\* back zero where the splines at s0 are not
C18_Witness ==
  /\ call.op = "resample"
  /\ call.basis \in {"B_1", "B_2"}
  /\ RLess(R(0), CalledRecord.times[1])
  /\ RLess(call.samples[1], CalledRecord.times[1])
  /\ WithinTolerance(call.samples[1], CalledRecord.times[1])
  /\ call.rows[1] = BasisRow(call.basis, call.samples[1], 1)
  /\ call.rows[1] # BasisRow(call.basis, call.samples[1], 0)

\* B was resampled with s0 just below a positive t0 or a zero t0, and row 0
\* is the value of the splines at s0
C18_BCorrectedWitness ==
  /\ call.op = "resample"
  /\ call.basis = "B"
  /\ ~RLess(CalledRecord.times[1], R(0))
  /\ RLess(call.samples[1], CalledRecord.times[1])
  /\ WithinTolerance(call.samples[1], CalledRecord.times[1])
  /\ call.rows[1] = BasisRow(call.basis, call.samples[1], 0)
  /\ call.rows[1] # BasisRow(call.basis, call.samples[1], 1)

\* B was resampled with s0 just below a negative t0, and row 0 came back zero
C18_NegativeWitness ==
  /\ call.op = "resample"
  /\ call.basis = "B"
  /\ RLess(CalledRecord.times[1], R(0))
  /\ RLess(call.samples[1], CalledRecord.times[1])
  /\ WithinTolerance(call.samples[1], CalledRecord.times[1])
  /\ call.rows[1] # BasisRow(call.basis, call.samples[1], 0)

\* the file holds a mode with m < 0
NegativeInFile == \E i \in 1..Len(archive) : archive[i][1][2] < 0

\* the surrogate holds no mode with m < 0
NoNegativeStored ==
  \A i \in 1..Len(single_mode_dict.keys) : single_mode_dict.keys[i][2] >= 0

\* C19: a surrogate constructed with use_orbital_plane_symmetry = True holds
\* no mode with m < 0, the construction from a file with such a mode having
\* failed; and no step, of the construction or after it, changes the flag.
C19_SymmetryStorage ==
  /\ [](/\ (pc = "ready" /\ use_orbital_plane_symmetry) => NoNegativeStored
        /\ (pc # "new" /\ use_orbital_plane_symmetry /\ NegativeInFile) =>
             (pc = "failed" /\ init_err = "do not load negative m modes"))
  /\ [][use_orbital_plane_symmetry' = use_orbital_plane_symmetry]_vars

\* a surrogate with the flag set was constructed and has been evaluated
C19_Witness ==
  /\ pc = "ready"
  /\ use_orbital_plane_symmetry
  /\ Len(single_mode_dict.keys) > 1
  /\ call.op = "call"
  /\ call.err = "none"

\* the construction from a file with a negative m was refused
C19_RefusedWitness ==
  /\ pc = "failed"
  /\ use_orbital_plane_symmetry
  /\ NegativeInFile
  /\ init_err = "do not load negative m modes"

\* without the flag the same file is loaded, negative m included
C19_LoadedWitness ==
  /\ pc = "ready"
  /\ ~use_orbital_plane_symmetry
  /\ ~NoNegativeStored

\* mode i of the list, evaluated alone the way the loop resolves it
AloneErr(i) ==
  IF Resolution(call.modes[i], call.fake_neg_modes) = "direct"
  THEN evaluate_single_mode(single_mode_dict, call.q, call.M, call.dist, call.samples,
                            call.samples_units, call.modes[i][1], call.modes[i][2]).err
  ELSE evaluate_single_mode_by_symmetry(single_mode_dict, call.q, call.M, call.dist,
                                        call.samples, call.samples_units,
                                        call.modes[i][1], call.modes[i][2]).err

\* a multi-mode evaluation with nothing against it but, possibly, modes of
\* its list that the surrogate does not model
WellPosedCall ==
  /\ call.op = "call"
  /\ call.modes # << >>
  /\ (call.theta = None) = (call.phi = None)
  /\ call.mode_sum => call.theta # None
  /\ \A i \in (1..Len(call.modes)) \ UnavailableAt : AloneErr(i) = "none"

\* with every mode of the list modelled, such an evaluation returns
WellPosedCompletes ==
  (WellPosedCall /\ UnavailableAt = {}) => call.err = "none"

\* C20: an evaluation whose mode list, built from a maximum ell or from
\* explicit ell and m lists, holds a mode the surrogate does not model still
\* returns, and that mode is zero: its column is all zeros when the modes
\* are returned side by side.
C20_UnmodelledIsZero ==
  (WellPosedCall /\ call.ell.tag \in {"int", "list"} /\ UnavailableAt # {}) =>
    /\ call.err = "none"
    /\ (~call.mode_sum /\ call.theta = None) =>
         \A i \in UnavailableAt :
           \A t \in 1..Len(call.hp_full) :
             call.hp_full[t][i] = R(0) /\ call.hc_full[t][i] = R(0)

\* a maximum ell of 3 on a surrogate without (3,3) ended the evaluation as
\* unavailable, after modelled modes had been evaluated
C20_Witness ==
  /\ WellPosedCall
  /\ call.ell.tag = "int"
  /\ UnavailableAt # {}
  /\ call.err = UnavailableErr
  /\ call.indexed # << >>
  /\ call.hp_full = << >>

\* explicit lists naming an unmodelled mode ended the evaluation as unavailable
C20_ListWitness ==
  /\ WellPosedCall
  /\ call.ell.tag = "list"
  /\ UnavailableAt # {}
  /\ call.err = UnavailableErr

\* mode i of the returned list evaluated alone, by the path the loop takes
\* for it
AloneMode(i) ==
  IF Resolution(call.modes[i], call.fake_neg_modes) = "direct"
  THEN evaluate_single_mode(single_mode_dict, call.q, call.M, call.dist, call.samples,
                            call.samples_units, call.modes[i][1], call.modes[i][2])
  ELSE evaluate_single_mode_by_symmetry(single_mode_dict, call.q, call.M, call.dist,
                                        call.samples, call.samples_units,
                                        call.modes[i][1], call.modes[i][2])

\* that mode as the evaluation returns it: rotated by z_rot*m and projected
\* on the sphere when the angles are given
AloneColumn(i) ==
  OnSphere(call.modes[i][1], call.modes[i][2], call.theta, call.phi,
           Rotated(call.z_rot, call.modes[i][2], AloneMode(i)))

\* an evaluation that returned its modes unsummed
ReturnsUnsummed ==
  /\ call.op = "call"
  /\ call.err = "none"
  /\ ~call.mode_sum

\* C21: with mode_sum=False the returned mode list is the requested list in
\* ascending order of (l,m), l first and then m; with more than one mode,
\* column i of hp_full and of hc_full is the evaluation of the i-th mode of
\* the returned list, for every i.
C21_SortedColumns ==
  ReturnsUnsummed =>
    /\ Len(call.modes) = Len(ModesToEvaluate.list)
    /\ \A x \in Range(call.modes) \cup Range(ModesToEvaluate.list) :
         Count(call.modes, x) = Count(ModesToEvaluate.list, x)
    /\ \A i \in 1..(Len(call.modes) - 1) : ~ModeLess(call.modes[i + 1], call.modes[i])
    /\ Len(call.modes) > 1 =>
         \A i \in 1..Len(call.modes) :
           /\ Column(call.hp_full, i) = AloneColumn(i).hp
           /\ Column(call.hc_full, i) = AloneColumn(i).hc

\* a request listing (3,3) before (2,2) returned (2,2) in column 1 and (3,3)
\* in column 2, the two columns differing
C21_Witness ==
  /\ ReturnsUnsummed
  /\ ModesToEvaluate.list = << << 3, 3 >>, << 2, 2 >> >>
  /\ call.modes = << << 2, 2 >>, << 3, 3 >> >>
  /\ Column(call.hp_full, 1) # Column(call.hp_full, 2)

\* negative m came before positive m of the same l
C21_NegativeFirstWitness ==
  /\ ReturnsUnsummed
  /\ Len(call.modes) > 1
  /\ call.modes[1] = << 2, -2 >>
  /\ call.modes[Len(call.modes)][1] = 2
  /\ call.modes[Len(call.modes)][2] > 0
  /\ call.modes # ModesToEvaluate.list

FakeErr == "it is not possible to fake m<0 modes"

\* C22: on a surrogate constructed with use_orbital_plane_symmetry=False an
\* evaluation with fake_neg_modes=True fails with "it is not possible to fake
\* m<0 modes", with no mode list built and no mode evaluated; one with
\* fake_neg_modes=False never takes the symmetry path.
C22_NoFakingWithoutSymmetry ==
  (call.op = "call" /\ ~use_orbital_plane_symmetry) =>
    /\ call.fake_neg_modes =>
         /\ call.err = FakeErr
         /\ call.modes = << >>
         /\ call.path = << >>
         /\ call.indexed = << >>
         /\ call.hp_full = << >> /\ call.hc_full = << >>
    /\ ~call.fake_neg_modes =>
         /\ call.err # FakeErr
         /\ \A i \in 1..Len(call.path) : call.path[i] # "symmetry"

\* a request for a mode the surrogate stores, with fake_neg_modes=True, was
\* refused on a surrogate without the symmetry
C22_Witness ==
  /\ call.op = "call"
  /\ ~use_orbital_plane_symmetry
  /\ call.fake_neg_modes
  /\ call.ell = ListArg(<< 2 >>) /\ call.m = ListArg(<< 2 >>)
  /\ IsStored(<< 2, 2 >>)
  /\ call.err = FakeErr

\* without the symmetry and with fake_neg_modes=False a stored negative-m
\* mode was evaluated from its own record
C22_DirectWitness ==
  /\ call.op = "call"
  /\ ~use_orbital_plane_symmetry
  /\ ~call.fake_neg_modes
  /\ call.err = "none"
  /\ \E i \in 1..Len(call.modes) : call.modes[i][2] < 0 /\ call.path[i] = "direct"

\* the rows of a resampling whose query time lies outside the native grid
\* and beyond the tolerance of its first time
OutsideRows ==
  {i \in 1..Len(call.samples) :
     /\ \/ RLess(call.samples[i], CalledRecord.times[1])
        \/ RLess(CalledRecord.times[Len(CalledRecord.times)], call.samples[i])
     /\ ~WithinTolerance(call.samples[i], CalledRecord.times[1])}

\* the stored row of the basis at the end of the grid nearest to x: the
\* value of the interpolating splines at that boundary
BoundaryRow(basis, x) ==
  IF RLess(x, CalledRecord.times[1]) THEN CalledRecord[basis][1]
  ELSE CalledRecord[basis][Len(CalledRecord.times)]

ZeroRow(basis) ==
  [jj \in 1..Len(CalledRecord[basis][1]) |->
     IF basis = "B" THEN C(R(0), R(0)) ELSE R(0)]

\* C23 as claimed: outside the native interval and beyond the tolerance each
\* resampled column is clamped at the value of its spline at the nearest
\* boundary.
C23_ClampedOutside ==
  call.op = "resample" =>
    \A i \in OutsideRows : call.rows[i] = BoundaryRow(call.basis, call.samples[i])

\* C23 as amended: outside the native interval and beyond the tolerance each
\* resampled column of B, B_1 and B_2 is zero: it is neither extrapolated
\* nor clamped at the boundary value.
C23_ZeroOutside ==
  call.op = "resample" =>
    \A i \in OutsideRows :
      /\ call.rows[i] = ZeroRow(call.basis)
      /\ call.rows[i] # BoundaryRow(call.basis, call.samples[i])
      /\ call.rows[i] # BasisRow(call.basis, call.samples[i], 0)

\* B was resampled with one query time before the grid and one after it
C23_Witness ==
  /\ call.op = "resample"
  /\ call.basis = "B"
  /\ OutsideRows = {1, 2}
  /\ call.rows[1] = ZeroRow("B")
  /\ call.rows[2] = ZeroRow("B")

\* B_1 was resampled with a query time after the end of the grid
C23_AmpWitness ==
  /\ call.op = "resample"
  /\ call.basis = "B_1"
  /\ 2 \in OutsideRows
  /\ call.rows[2] = ZeroRow("B_1")

\* the scales of the single mode call in `call`
CallScales == Scales(call.M, call.dist)

\* the samples of that call as dimensionless times t/M
DimensionlessSamples ==
  IF call.samples_units = "mks"
  THEN [i \in 1..Len(call.samples) |-> RDiv(call.samples[i], CallScales.t_scale)]
  ELSE call.samples

\* the bare mode of the called record at those dimensionless times
BareAtDimensionless ==
  _h_sur(CalledRecord, get_surr_params(CalledRecord.get_surr_params, call.q),
         DimensionlessSamples)

\* the same evaluation with the samples given in seconds, s*t_scale
SameInSeconds ==
  SingleModeCallFLow(CalledRecord, call.q, call.M, call.dist, call.f_low,
                     [i \in 1..Len(call.samples) |->
                        RMul(call.samples[i], CallScales.t_scale)],
                     "mks", TRUE)

\* C24: a single mode evaluation at given samples that returns has resampled
\* the basis at the dimensionless times, samples/t_scale for samples in
\* seconds and the samples themselves otherwise; an evaluation with samples
\* s and samples_units='dimensionless' gives the time array, polarizations
\* and outcome of the evaluation with s*t_scale and samples_units='mks'; and
\* any other samples_units fails before any step of the evaluation.
C24_UnitsThreaded ==
  call.op = "single" =>
    /\ (call.err = "none" /\ call.samples # None) =>
         /\ call.hp = [i \in 1..Len(call.samples) |->
                         RMul(CallScales.amp0, BareAtDimensionless.hp[i])]
         /\ call.hc = [i \in 1..Len(call.samples) |->
                         RMul(CallScales.amp0, BareAtDimensionless.hc[i])]
    /\ (call.samples # None /\ call.samples_units = "dimensionless") =>
         /\ SameInSeconds.err = call.err
         /\ SameInSeconds.t = call.t
         /\ SameInSeconds.hp = call.hp
         /\ SameInSeconds.hc = call.hc
    /\ call.samples_units \notin {"dimensionless", "mks"} =>
         /\ call.err = "samples_units is not supported"
         /\ call.steps = << >>
         /\ call.hp = << >> /\ call.hc = << >>

\* a physical mode was evaluated at dimensionless samples, with a time scale
\* other than 1
C24_Witness ==
  /\ call.op = "single"
  /\ call.err = "none"
  /\ call.samples # None
  /\ call.samples_units = "dimensionless"
  /\ CallScales.t_scale # R(1)
  /\ call.t # call.samples
  /\ call.hp # [i \in 1..Len(call.hp) |-> R(0)]

\* a physical mode was evaluated at samples given in seconds
C24_SecondsWitness ==
  /\ call.op = "single"
  /\ call.err = "none"
  /\ call.samples # None
  /\ call.samples_units = "mks"
  /\ CallScales.t_scale # R(1)
  /\ call.t = call.samples

\* an evaluation with other units was refused
C24_RefusedWitness ==
  /\ call.op = "single"
  /\ call.samples_units = "cgs"
  /\ call.err = "samples_units is not supported"

\* C25: _extend_mode_list_minus_m hands back a new list and leaves the list
\* passed to it as it was, whether it succeeds or fails on a negative m.
C25_ExtendLeavesInput ==
  call.op = "extend" =>
    /\ call.after = call.mode_list
    /\ call.err = "none" => ~call.same_object

\* the list [(2,2), (2,-2)] was refused and is left with the (2,-2) that
\* was appended for (2,2) before the negative m was met
C25_Witness ==
  /\ call.op = "extend"
  /\ call.mode_list = << << 2, 2 >>, << 2, -2 >> >>
  /\ call.err = "your list already has negative modes!"
  /\ call.after = << << 2, 2 >>, << 2, -2 >>, << 2, -2 >> >>

\* the list [(2,2)] was extended: the caller's list and the list handed
\* back are one object, now [(2,2), (2,-2)]
C25_ExtendedWitness ==
  /\ call.op = "extend"
  /\ call.mode_list = << << 2, 2 >> >>
  /\ call.err = "none"
  /\ call.same_object
  /\ call.after = << << 2, 2 >>, << 2, -2 >> >>
  /\ call.returned = call.after

\* the errors of evaluate_single_mode_by_symmetry and _generate_minus_m_mode
\* for an m of the wrong sign
SignErrs == {"m must be negative.", "m must be nonnegative"}

\* C26: in a multi-mode evaluation the symmetry path is taken only for a
\* mode of the list with m < 0 that is not stored and whose (l,-m) is, so
\* _generate_minus_m_mode gets -m > 0; neither "m must be negative" nor
\* "m must be nonnegative" ends a multi-mode evaluation or a match made
\* through one, whatever ell, m and fake_neg_modes are.
C26_SymmetryOnlyForNegativeM ==
  /\ call.op \in {"call", "match"} => call.err \notin SignErrs
  /\ call.op = "call" =>
       \A i \in 1..Len(call.path) :
         call.path[i] = "symmetry" =>
           /\ call.fake_neg_modes
           /\ use_orbital_plane_symmetry
           /\ call.modes[i][2] < 0
           /\ -call.modes[i][2] > 0
           /\ ~IsStored(call.modes[i])
           /\ IsStored(<< call.modes[i][1], -call.modes[i][2] >>)

\* an evaluation with fake_neg_modes=True returned a mode with m < 0 derived
\* by symmetry next to the stored mode it was derived from
C26_Witness ==
  /\ call.op = "call"
  /\ call.err = "none"
  /\ call.fake_neg_modes
  /\ \E i, k \in 1..Len(call.modes) :
       /\ call.modes[i][2] < 0 /\ call.path[i] = "symmetry"
       /\ call.modes[k] = << call.modes[i][1], -call.modes[i][2] >>
       /\ call.path[k] = "direct"

\* an evaluation with fake_neg_modes=True of a list holding m = 0, m > 0 and
\* m < 0 modes returned, the m < 0 mode by symmetry and the others directly
C26_ZeroWitness ==
  /\ call.op = "call"
  /\ call.err = "none"
  /\ call.fake_neg_modes
  /\ \E i, j, k \in 1..Len(call.modes) :
       /\ call.modes[i][2] < 0 /\ call.path[i] = "symmetry"
       /\ call.modes[j][2] = 0 /\ call.path[j] = "direct"
       /\ call.modes[k][2] > 0 /\ call.path[k] = "direct"

====
